---------------------------- MODULE Spec2Model ----------------------------
(***************************************************************************)
(* A model of mocha's Runnable (src/src/runnable.ts): one Runnable object, *)
(* the runs started on it with run(fn), and the events that reach it       *)
(* afterwards (completion calls of the body, promise settlements, timer    *)
(* firings, timeout(ms) and reset() calls).                                *)
(*                                                                         *)
(* Beside the Runnable: the error slot of a Hook (src/src/hook.ts), the     *)
(* Test objects and their clones (Test.prototype.clone), the stats         *)
(* collector (src/src/stats-collector.ts) and the failure bookkeeping of   *)
(* the Base reporter, each with a specification of its own.                *)
(*                                                                         *)
(* Every JavaScript task (a call of run() with the synchronous part of the *)
(* body, a later callback of the body, a timer callback) is one atomic     *)
(* action: JavaScript runs a task to completion.                           *)
(***************************************************************************)
EXTENDS Integers, Sequences, FiniteSets, TLC

(***************************************************************************)
(* Bounds of the model.                                                    *)
(***************************************************************************)
MaxRuns == 2        \* calls of run() on the Runnable
MaxTime == 2        \* the clock stops at this tick
MaxSyncCalls == 1   \* completion calls the body makes before it returns
MaxAttempts == 2    \* completion attempts of one run that are counted
MaxSets == 1        \* calls of timeout(ms)
MaxHookOps == 4     \* calls of error() and reset() on the hook
MaxTests == 3       \* Test objects: the declared one and its clones
MaxEvents == 4      \* events the runner emits to the stats collector
MaxFails == 4       \* test-fail events the Base reporter receives
MaxPasses == 2      \* test-pass events the Base reporter receives
MaxSuites == 2      \* suites declared below the root suite
MaxCalls == 4       \* calls of run() in one worker
MaxFiles == 2       \* file names: 1..MaxFiles, in their sort order

(***************************************************************************)
(* Program constants.                                                      *)
(***************************************************************************)
INT_MAX == 2147483647
DefaultTimeout == 2000
DefaultSlow == 75
DefaultRetries == -1

(***************************************************************************)
(* JavaScript values that reach the Runnable.  A value the user code       *)
(* throws, passes to the completion callback or rejects a promise with is  *)
(* one of UserValues; the errors the framework creates carry the fields    *)
(* their constructors in errors.ts set.                                    *)
(***************************************************************************)
UserValues == {"undefined", "null", "Error", "string"}

JsValue(kind, code, value, valueType, ms, f) ==
  [kind |-> kind, code |-> code, value |-> value, valueType |-> valueType,
   timeout |-> ms, file |-> f]

User(v) == JsValue("user", "", v, "", 0, "")

Undefined == User("undefined")

\* typeof value
TypeOf(x) ==
  IF x.kind # "user" THEN "object"
  ELSE CASE x.value = "undefined" -> "undefined"
         [] x.value = "string" -> "string"
         [] OTHER -> "object"

\* JavaScript truthiness: undefined and null (standing for every falsy
\* value that is not undefined) are falsy, every object is truthy.
Truthy(x) == ~(x.kind = "user" /\ x.value \in {"undefined", "null"})

\* err instanceof Error || toString.call(err) === '[object Error]'
IsError(x) == x.kind # "user" \/ x.value = "Error"

IsPlainObject(x) == x.kind = "user" /\ x.value = "object"

\* new Errors.Error(message) / new Errors.TypeError(message)
PlainError(kind) == JsValue(kind, "", "undefined", "", 0, "")

createInvalidExceptionError(value) ==
  JsValue("invalidException", "ERR_MOCHA_INVALID_EXCEPTION", value.value,
          TypeOf(value), 0, "")

\* err.value is kept as its type alone
createMultipleDoneError(originalErr) ==
  JsValue("multipleDone", "ERR_MOCHA_MULTIPLE_DONE", "", TypeOf(originalErr), 0, "")

createTimeoutError(ms, f) ==
  JsValue("timeout", "ERR_MOCHA_TIMEOUT", "undefined", "", ms, f)

\* the errors of errors.ts that the interfaces and the worker throw
MochaError(code, message, argument) ==
  [code |-> code, message |-> message, argument |-> argument]

NoError == MochaError("none", "", "")

createUnsupportedError(message) == MochaError("ERR_MOCHA_UNSUPPORTED", message, "")

createInvalidArgumentTypeError(message, argument) ==
  MochaError("ERR_MOCHA_INVALID_ARG_TYPE", message, argument)

createMissingArgumentError(message, argument) ==
  createInvalidArgumentTypeError(message, argument)

createForbiddenExclusivityError(isWorker) ==
  MochaError("ERR_MOCHA_FORBIDDEN_EXCLUSIVITY",
             IF isWorker THEN ".only is not supported in parallel mode"
             ELSE ".only forbidden by --forbid-only", "")

\* toValueOrError that returns every value as it is
toValueNoError(value) == value

toValueOrError(value) ==
  IF Truthy(value) THEN value ELSE createInvalidExceptionError(value)


(***************************************************************************)
(* The Runnable.  kind, allowUncaught, asyncOnly, file and parentPending   *)
(* are set when the test plan is built and stay as they are.               *)
(*                                                                         *)
(* run() creates a closure (start, finished, errorWasHandled, result and   *)
(* the functions done and multiple) and stores its done in this.callback.  *)
(* The model follows one closure, the one this.callback refers to: the     *)
(* closure of run number callback.  fnArgs, ended, threw and rethrown      *)
(* describe the latest call of run(), which is run number nruns; when that *)
(* call returned at the pending check, the closure is still the one of an  *)
(* earlier run.  Later callbacks of a body whose closure run() has         *)
(* replaced are not followed.  live, ended, calls and threw record what    *)
(* happened; the code does not read them.                                  *)
(***************************************************************************)
VARIABLES
  kind,             \* what this.fn is: "callback" (declares a completion
                    \* parameter: this.async), "plain", "notCallable"
  allowUncaught,    \* this.allowUncaught
  asyncOnly,        \* this.asyncOnly
  file,             \* this.file, "" when unset
  parentPending,    \* this.parent.isPending()
  _timeout,         \* this._timeout
  timedOut,         \* this.timedOut
  pending,          \* this.pending
  timer,            \* this.timer: the handle and the timer behind it
  callback,         \* this.callback: the run whose done() it is, 0 when unset
  skip,             \* this.skip: "prototype", or "asyncSkip" of the closure
  now,              \* the clock, Number(new Date())
  nruns,            \* the number of run() calls so far
  nsets,            \* the number of timeout(ms) calls so far
  arg,              \* the argument of the latest timeout(ms) call
  mode,             \* closure: the branch run() took
  start,            \* closure: start
  finished,         \* closure: finished
  errorWasHandled,  \* closure: errorWasHandled
  result,           \* closure: callFnAsync's result, the promise of callFn
  emitted,          \* closure: the 'error' events multiple() emitted
  live,             \* closure: the calls of done() made while timedOut was false
  fnArgs,           \* latest run: the arguments of the calls of fn, in order
  ended,            \* latest run: how the synchronous part of the body ended
  calls,            \* latest run: the completion calls the body made before that
  threw,            \* latest run: the value the body threw
  rethrown,         \* latest run: run() threw that value to its caller
  _error,           \* Hook: this._error
  hookLog,          \* Hook: the calls of error() and reset() and what they returned
  tests,            \* the Test objects, in the order of their construction
  stats,            \* stats collector: runner.stats
  once,             \* stats collector: the events its once-listeners wait for
  seen,             \* stats collector: how often the runner emitted each event
  failures,         \* Base reporter: this.failures
  failEvents,       \* Base reporter: the test-fail events it received
  passEvents,       \* Base reporter: the test-pass events it received
  options,          \* interfaces: mocha.options, what the interfaces read of it
  suites,           \* interfaces: the stack of current suites, suites[1] on top
  tree,             \* interfaces: the Suite objects, the root suite first
  bodies,           \* interfaces: the suites whose body function is executing
  marked,           \* interfaces: the calls of markOnly(), in order
  dsl,              \* interfaces: the latest declaration and what it threw
  bootstrap,        \* worker: what the module variable bootstrap holds
  rootHooks,        \* worker: the module variable rootHooks
  pc,               \* worker: where each call of run() stands
  work,             \* worker: how often each piece of bootstrap work was done
  collected         \* collectFiles: its calls, the options and the outcome

\* the variables of the Runnable
runnableVars ==
  <<kind, allowUncaught, asyncOnly, file, parentPending, _timeout,
    timedOut, pending, timer, callback, skip, now, nruns, nsets, arg,
    mode, start, finished, errorWasHandled, result, emitted, live,
    fnArgs, ended, calls, threw, rethrown>>

\* the variables of the other objects
dslVars == <<options, suites, tree, bodies, marked, dsl>>

workerVars == <<bootstrap, rootHooks, pc, work>>

more == <<passEvents, dslVars, workerVars, collected>>

objects ==
  <<_error, hookLog, tests, stats, once, seen, failures, failEvents, more>>

vars == <<runnableVars, objects>>

config == <<kind, allowUncaught, asyncOnly, file, parentPending>>

Kinds == {"callback", "plain", "notCallable"}
Files == {"a.spec.js"}

NoTimer == [status |-> "none", ms |-> 0, armedAt |-> 0]

\* A JavaScript number handed to timeout(ms): an integer, Infinity or
\* -Infinity (every number above INT_MAX behaves as Infinity does).
Num(n) == [inf |-> 0, n |-> n]
PosInfinity == [inf |-> 1, n |-> 0]
NegInfinity == [inf |-> -1, n |-> 0]

\* The state as one record, so that the nested calls of the code compose.
State ==
  [_timeout |-> _timeout, timedOut |-> timedOut, pending |-> pending,
   timer |-> timer, callback |-> callback, skip |-> skip, now |-> now,
   nruns |-> nruns, mode |-> mode, start |-> start, finished |-> finished,
   errorWasHandled |-> errorWasHandled, result |-> result,
   emitted |-> emitted, live |-> live, fnArgs |-> fnArgs, ended |-> ended,
   calls |-> calls, threw |-> threw, rethrown |-> rethrown]

Becomes(s) ==
  /\ _timeout' = s._timeout
  /\ timedOut' = s.timedOut
  /\ pending' = s.pending
  /\ timer' = s.timer
  /\ callback' = s.callback
  /\ skip' = s.skip
  /\ now' = s.now
  /\ nruns' = s.nruns
  /\ mode' = s.mode
  /\ start' = s.start
  /\ finished' = s.finished
  /\ errorWasHandled' = s.errorWasHandled
  /\ result' = s.result
  /\ emitted' = s.emitted
  /\ live' = s.live
  /\ fnArgs' = s.fnArgs
  /\ ended' = s.ended
  /\ calls' = s.calls
  /\ threw' = s.threw
  /\ rethrown' = s.rethrown

(***************************************************************************)
(* The methods of Runnable and the closures of run(), as functions of the  *)
(* state record.                                                           *)
(***************************************************************************)
\* Math.min, Math.max
Min(a, b) == IF a.inf < b.inf \/ (a.inf = b.inf /\ a.n < b.n) THEN a ELSE b
Max(a, b) == IF a.inf > b.inf \/ (a.inf = b.inf /\ a.n > b.n) THEN a ELSE b

\* utils.clamp(value, range)
clamp(value, lo, hi) == Min(Max(value, Num(lo)), Num(hi)).n

\* Runnable.prototype.isPending
isPending(s) == s.pending \/ parentPending

\* Runnable.prototype.isFailed
isFailed(s) == ~isPending(s) /\ s.state = "failed"

\* isPassed() that looks at the state field alone
isPassedRaw(s) == s.state = "passed"

\* Runnable.prototype.isPassed
isPassed(s) == ~isPending(s) /\ s.state = "passed"

\* Runnable.prototype._timeoutError
timeoutError(ms) == createTimeoutError(ms, file)

\* Runnable.prototype.clearTimeout: a cleared handle stays in this.timer
clearTimeout(s) ==
  IF s.timer.status = "armed" THEN [s EXCEPT !.timer.status = "cleared"] ELSE s

\* Runnable.prototype.resetTimeout
resetTimeout(s) ==
  LET ms == s._timeout IN
  IF ms = 0 THEN s
  ELSE [s EXCEPT !.timer = [status |-> "armed", ms |-> ms, armedAt |-> s.now]]

\* timeout(ms) without the rule for the ends of the range
timeoutKeepsEndpoints(s, ms) ==
  LET s1 == [s EXCEPT !._timeout = clamp(ms, 0, INT_MAX)]
  IN IF s1.timer.status # "none" THEN resetTimeout(s1) ELSE s1

\* Runnable.prototype.timeout(ms), the setter
timeout(s, ms) ==
  LET c == clamp(ms, 0, INT_MAX)
      s1 == [s EXCEPT !._timeout = IF c = 0 \/ c = INT_MAX THEN 0 ELSE c]
  IN IF s1.timer.status # "none" THEN resetTimeout(s1) ELSE s1

\* A JavaScript number that may be unset or NaN
Number(n) == [type |-> "number", n |-> n]
NoNumber == [type |-> "undefined", n |-> 0]
NaN == [type |-> "NaN", n |-> 0]

\* the events of the runner: run begin and end, suite begin (of the root
\* suite, of another suite), test pass, fail, pending and end, and two
\* events the collector does not listen to
Events ==
  {"start", "end", "suite root", "suite", "pass", "fail", "pending",
   "test end", "test", "suite end"}

\* createStatsCollector: the stats object
createStatsCollector ==
  [suites |-> 0, tests |-> 0, passes |-> 0, pending |-> 0, failures |-> 0,
   start |-> NoNumber, end |-> NoNumber, duration |-> NoNumber]

\* mocha.options as the Mocha constructor leaves them: nothing forbidden,
\* no grep
DefaultOptions ==
  [forbidOnly |-> FALSE, forbidPending |-> FALSE, grep |-> "none",
   invert |-> FALSE, isWorker |-> FALSE]

\* new Suite(title): a Suite is referred to by its place in tree, 0 stands
\* for no Suite
Suite(title, parent) ==
  [title |-> title, pending |-> FALSE, parent |-> parent, file |-> "undefined"]

RootSuite == Suite("", 0)

\* no declaration was made yet
NoDeclaration ==
  [op |-> "none", created |-> FALSE, fn |-> "none", pending |-> FALSE,
   suite |-> 0, test |-> 0, thrown |-> NoError]

\* The Runnable as its constructor leaves it
Fresh == [_timeout |-> DefaultTimeout, timer |-> NoTimer, now |-> 0]

\* the timeouts a Runnable is given when it is added to the plan
ConfiguredTimeouts == {0, 1, DefaultTimeout}

\* asyncOnly is read by callFn alone, allowUncaught by the catch blocks.
Init ==
  /\ kind \in Kinds
  /\ allowUncaught \in (IF kind = "notCallable" THEN {FALSE} ELSE BOOLEAN)
  /\ asyncOnly \in (IF kind = "plain" THEN BOOLEAN ELSE {FALSE})
  /\ file \in Files
  /\ parentPending \in BOOLEAN
  /\ \E ms \in ConfiguredTimeouts :
       /\ arg = Num(ms)
       /\ _timeout = timeout(Fresh, Num(ms))._timeout
  /\ timedOut = FALSE
  /\ pending = FALSE
  /\ timer = NoTimer
  /\ callback = 0
  /\ skip = "prototype"
  /\ now = 0
  /\ nruns = 0
  /\ nsets = 0
  /\ mode = "none"
  /\ start = 0
  /\ finished = FALSE
  /\ errorWasHandled = FALSE
  /\ result = "none"
  /\ emitted = <<>>
  /\ live = 0
  /\ fnArgs = <<>>
  /\ ended = "none"
  /\ calls = 0
  /\ threw = "none"
  /\ rethrown = FALSE
  /\ _error = "undefined"
  /\ hookLog = <<>>
  /\ tests = <<>>
  /\ stats = createStatsCollector
  /\ once = {"start", "end"}
  /\ seen = [e \in Events |-> 0]
  /\ failures = <<>>
  /\ failEvents = <<>>
  /\ passEvents = <<>>
  /\ options = DefaultOptions
  /\ suites = <<1>>
  /\ tree = <<RootSuite>>
  /\ bodies = <<>>
  /\ marked = <<>>
  /\ dsl = NoDeclaration
  /\ bootstrap = "bootstrap"
  /\ rootHooks = "undefined"
  /\ pc = [c \in 1..MaxCalls |-> "idle"]
  /\ work = [handleRequires |-> 0, validateLegacyPlugin |-> 0]
  /\ collected = <<>>

\* multiple(err) that reports nothing
multipleSilent(s, err) == [s EXCEPT !.errorWasHandled = TRUE]

\* run(): multiple(err)
multiple(s, err) ==
  IF s.errorWasHandled THEN s
  ELSE [s EXCEPT !.errorWasHandled = TRUE,
                 !.emitted = Append(@, createMultipleDoneError(err))]

\* fn(err): the fn of the latest run is followed
invokeFn(s, err) ==
  IF s.callback = s.nruns THEN [s EXCEPT !.fnArgs = Append(@, err)] ELSE s

\* done(err) without the check of finished
doneAgain(s, err) ==
  IF s.timedOut THEN s
  ELSE invokeFn([clearTimeout([s EXCEPT !.live = @ + 1]) EXCEPT !.finished = TRUE],
              err)

\* done(err) without the check of timedOut
doneAfterTimeout(s, err) ==
  LET c == [s EXCEPT !.live = @ + 1] IN
  IF c.finished THEN multiple(c, err)
  ELSE invokeFn([clearTimeout(c) EXCEPT !.finished = TRUE], err)

\* done() without the duration check
doneUnmeasured(s, err) ==
  IF s.timedOut THEN s
  ELSE LET c == [s EXCEPT !.live = @ + 1] IN
       IF c.finished THEN multiple(c, err)
       ELSE invokeFn([clearTimeout(c) EXCEPT !.finished = TRUE], err)

\* run(): done(err).  live counts the calls made while timedOut is false;
\* this.duration is the local d.
done(s, err) ==
  LET ms == s._timeout IN
  IF s.timedOut THEN s
  ELSE LET c == [s EXCEPT !.live = @ + 1] IN
       IF c.finished THEN multiple(c, err)
       ELSE LET d == c.now - c.start
                e == IF ~Truthy(err) /\ d > ms /\ ms > 0
                     THEN timeoutError(ms) ELSE err
            IN invokeFn([clearTimeout(c) EXCEPT !.finished = TRUE], e)

\* the completion callback that hands every value to done() as it is
completionRaw(s, err) == done(s, err)

\* the completion callback without the check of the returned promise
completionNoPromiseCheck(s, err) ==
  IF IsError(err) THEN done(s, err)
  ELSE IF Truthy(err)
  THEN done(s, JsValue("doneNonError", "", err.value, "string", 0, ""))
  ELSE done(s, Undefined)

\* callFnAsync: the function handed to the body as its completion callback
completion(s, err) ==
  IF IsError(err) THEN done(s, err)
  ELSE IF Truthy(err) THEN
    IF IsPlainObject(err)
    THEN done(s, JsValue("doneNonError", "", err.value, "json", 0, ""))
    ELSE done(s, JsValue("doneNonError", "", err.value, "string", 0, ""))
  ELSE IF s.result = "promise" THEN done(s, PlainError("overspecified"))
  ELSE done(s, Undefined)

\* the completion calls the body makes before it returns, in order
RECURSIVE syncCalls(_, _)
syncCalls(s, values) ==
  IF values = <<>> THEN s
  ELSE syncCalls(completion(s, User(Head(values))), Tail(values))

\* the catch blocks without the allowUncaught branch
caughtAlways(s, err) ==
  done([s EXCEPT !.errorWasHandled = TRUE, !.threw = err.value],
       toValueOrError(err))

\* the catch blocks without errorWasHandled = true
caughtUnhandled(s, err) ==
  LET c == [s EXCEPT !.threw = err.value] IN
  IF allowUncaught THEN [c EXCEPT !.rethrown = TRUE]
  ELSE done(c, toValueOrError(err))

\* run(): the catch blocks, for a thrown value that is no Pending
caught(s, err) ==
  LET c == [s EXCEPT !.errorWasHandled = TRUE, !.threw = err.value] IN
  IF allowUncaught THEN [c EXCEPT !.rethrown = TRUE]
  ELSE done(c, toValueOrError(err))

\* run(): explicit async with `done` argument.  The body takes b.elapsed
\* ticks, calls its callback with b.calls and ends as b.end says.
runAsync(s, b) ==
  LET s1 == [resetTimeout(s) EXCEPT !.skip = "asyncSkip", !.mode = "async"]
      s2 == syncCalls([s1 EXCEPT !.now = @ + b.elapsed], b.calls)
  IN CASE b.end = "return" -> [s2 EXCEPT !.result = "value"]
       [] b.end = "returnPromise" -> [s2 EXCEPT !.result = "promise"]
       [] b.end = "skip" ->
            \* asyncSkip, then the catch block
            [done([s2 EXCEPT !.pending = TRUE], Undefined)
               EXCEPT !.errorWasHandled = TRUE]
       [] b.end = "throw" -> caught(s2, User(b.value))

\* run() that takes the Pending of skip() for a failure
runSyncSkipFails(s, b) ==
  LET s1 == [s EXCEPT !.mode = "sync", !.now = @ + b.elapsed]
  IN CASE b.end = "return" ->
            IF asyncOnly
            THEN done([s1 EXCEPT !.result = "value"], PlainError("asyncOnly"))
            ELSE done([s1 EXCEPT !.result = "value"], Undefined)
       [] b.end = "returnPromise" ->
            [resetTimeout(s1) EXCEPT !.mode = "thenable", !.result = "promise"]
       [] b.end = "skip" ->
            done([s1 EXCEPT !.pending = TRUE, !.errorWasHandled = TRUE],
                 toValueOrError(PlainError("pending")))
       [] b.end = "throw" -> caught(s1, User(b.value))

\* callFn that does not read asyncOnly
runSyncIgnoresAsyncOnly(s, b) ==
  LET s1 == [s EXCEPT !.mode = "sync", !.now = @ + b.elapsed]
  IN CASE b.end = "return" -> done([s1 EXCEPT !.result = "value"], Undefined)
       [] b.end = "returnPromise" ->
            [resetTimeout(s1) EXCEPT !.mode = "thenable", !.result = "promise"]
       [] b.end = "skip" ->
            done([s1 EXCEPT !.pending = TRUE, !.errorWasHandled = TRUE], Undefined)
       [] b.end = "throw" -> caught(s1, User(b.value))

\* run(): sync or promise-returning, with callFn
runSync(s, b) ==
  LET s1 == [s EXCEPT !.mode = "sync", !.now = @ + b.elapsed]
  IN CASE b.end = "return" ->
            IF asyncOnly
            THEN done([s1 EXCEPT !.result = "value"], PlainError("asyncOnly"))
            ELSE done([s1 EXCEPT !.result = "value"], Undefined)
       [] b.end = "returnPromise" ->
            [resetTimeout(s1) EXCEPT !.mode = "thenable", !.result = "promise"]
       [] b.end = "skip" ->
            \* Runnable.prototype.skip, then the catch block
            done([s1 EXCEPT !.pending = TRUE, !.errorWasHandled = TRUE], Undefined)
       [] b.end = "throw" -> caught(s1, User(b.value))

\* run() without the pending check
runPending(s, b) ==
  LET s1 == [s EXCEPT !.nruns = @ + 1, !.fnArgs = <<>>, !.ended = b.end,
                      !.calls = Len(b.calls), !.threw = "none",
                      !.rethrown = FALSE, !.callback = s.nruns + 1,
                      !.start = s.now, !.finished = FALSE,
                      !.errorWasHandled = FALSE, !.result = "none",
                      !.emitted = <<>>, !.live = 0]
  IN IF kind = "callback" THEN runAsync(s1, b) ELSE runSync(s1, b)

\* Runnable.prototype.run: call number s.nruns + 1
run(s, b) ==
  LET n == [s EXCEPT !.nruns = @ + 1, !.fnArgs = <<>>, !.ended = b.end,
                     !.calls = Len(b.calls), !.threw = "none",
                     !.rethrown = FALSE]
  IN IF isPending(s)
     THEN [n EXCEPT !.fnArgs = <<Undefined>>, !.ended = "pending"]
     ELSE LET s1 == [n EXCEPT !.callback = n.nruns, !.start = s.now,
                              !.finished = FALSE, !.errorWasHandled = FALSE,
                              !.result = "none", !.emitted = <<>>, !.live = 0]
          IN IF kind = "notCallable"
             THEN done([s1 EXCEPT !.mode = "notCallable", !.ended = "notCallable"],
                       PlainError("typeError"))
             ELSE IF kind = "callback" THEN runAsync(s1, b)
             ELSE runSync(s1, b)

\* callFn: the handlers given to result.then
fulfilled(s) == done([s EXCEPT !.result = "settled"], Undefined)

\* the rejection handler without the default reason
rejectedRaw(s, reason) == done([s EXCEPT !.result = "settled"], reason)

rejected(s, reason) ==
  done([s EXCEPT !.result = "settled"],
       IF Truthy(reason) THEN reason ELSE PlainError("rejectedFalsy"))

\* the timer's callback with the threshold read when it fires, not when armed
timerCallbackLate(s) ==
  LET s1 == [s EXCEPT !.timer.status = "fired"] IN
  IF s1._timeout = 0 THEN s1
  ELSE [(IF s1.callback # 0 THEN done(s1, timeoutError(0)) ELSE s1)
          EXCEPT !.timedOut = TRUE]

\* the timer's callback without the call of this.callback
timerCallbackSilent(s) ==
  LET s1 == [s EXCEPT !.timer.status = "fired"] IN
  IF s1._timeout = 0 THEN s1 ELSE [s1 EXCEPT !.timedOut = TRUE]

\* the timer's callback without the check of a disabled timeout
timerCallbackUnchecked(s) ==
  LET s1 == [s EXCEPT !.timer.status = "fired"] IN
  [(IF s1.callback # 0 THEN done(s1, timeoutError(s1.timer.ms)) ELSE s1)
     EXCEPT !.timedOut = TRUE]

\* resetTimeout: the timer's callback
timerCallback(s) ==
  LET s1 == [s EXCEPT !.timer.status = "fired"] IN
  IF s1._timeout = 0 THEN s1
  ELSE [(IF s1.callback # 0 THEN done(s1, timeoutError(s1.timer.ms)) ELSE s1)
          EXCEPT !.timedOut = TRUE]

\* Runnable.prototype.reset
reset(s) == [s EXCEPT !.timedOut = FALSE, !.pending = FALSE]

\* this.skip() called by a later callback of the body: asyncSkip of the
\* closure, or the prototype's skip
laterSkip(s) ==
  IF s.skip = "asyncSkip" THEN done([s EXCEPT !.pending = TRUE], Undefined)
  ELSE [s EXCEPT !.pending = TRUE]

(***************************************************************************)
(* The actions: the calls the scheduler and the user code make on the      *)
(* Runnable, and the events of the event loop.                             *)
(***************************************************************************)
\* the arguments timeout(ms) is called with while the Runnable is in use
TimeoutArgs == {Num(0), Num(1), Num(2)}

CallSeqs == UNION {[1..n -> UserValues] : n \in 0..MaxSyncCalls}

Body(elapsed, values, e, value) ==
  [elapsed |-> elapsed, calls |-> values, end |-> e, value |-> value]

\* What the synchronous part of a body can do.  Only a body that declares
\* the callback can call it; a Runnable that is pending or has no callable
\* fn never enters its body.
Bodies ==
  IF isPending(State) \/ kind = "notCallable"
  THEN {Body(0, <<>>, "return", "undefined")}
  ELSE {Body(d, c, e, "undefined") :
          d \in 0..(MaxTime - now),
          c \in (IF kind = "callback" THEN CallSeqs ELSE {<<>>}),
          e \in {"return", "returnPromise", "skip"}}
       \cup
       {Body(d, c, "throw", v) :
          d \in 0..(MaxTime - now),
          c \in (IF kind = "callback" THEN CallSeqs ELSE {<<>>}),
          v \in UserValues}

\* The scheduler calls run(fn) again only from the completion of the run
\* before, or after that run threw.
Run ==
  /\ nruns < MaxRuns
  /\ nruns > 0 => (fnArgs # <<>> \/ rethrown)
  /\ \E b \in Bodies : Becomes(run(State, b))
  /\ UNCHANGED <<config, nsets, arg, objects>>

\* A later callback of the body calls its completion callback.  The done()
\* of the catch block is no attempt of the body.
LateCall ==
  /\ mode = "async"
  /\ live < MaxAttempts + (IF threw # "none" /\ ~rethrown THEN 1 ELSE 0)
  /\ \E v \in UserValues : Becomes(completion(State, User(v)))
  /\ UNCHANGED <<config, nsets, arg, objects>>

\* The promise the body returned is fulfilled.
Fulfil ==
  /\ mode = "thenable"
  /\ result = "promise"
  /\ Becomes(fulfilled(State))
  /\ UNCHANGED <<config, nsets, arg, objects>>

\* The promise the body returned is rejected.
Reject ==
  /\ mode = "thenable"
  /\ result = "promise"
  /\ \E v \in UserValues : Becomes(rejected(State, User(v)))
  /\ UNCHANGED <<config, nsets, arg, objects>>

\* A later callback of the body calls this.skip().
LateSkip ==
  /\ mode \in {"async", "thenable"}
  /\ live < MaxAttempts
  /\ Becomes(laterSkip(State))
  /\ UNCHANGED <<config, nsets, arg, objects>>

\* The timer of this.timer fires: not before it is due.
TimerFire ==
  /\ timer.status = "armed"
  /\ now - timer.armedAt >= timer.ms
  /\ Becomes(timerCallback(State))
  /\ UNCHANGED <<config, nsets, arg, objects>>

\* timeout(ms) is called, by the scheduler or by the user code.
SetTimeout ==
  /\ nsets < MaxSets
  /\ \E ms \in TimeoutArgs :
       /\ Becomes(timeout(State, ms))
       /\ arg' = ms
  /\ nsets' = nsets + 1
  /\ UNCHANGED <<config, objects>>

\* reset() is called.
Reset ==
  /\ Becomes(reset(State))
  /\ UNCHANGED <<config, nsets, arg, objects>>

\* Time passes between two tasks.
Tick ==
  /\ now < MaxTime
  /\ Becomes([State EXCEPT !.now = @ + 1])
  /\ UNCHANGED <<config, nsets, arg, objects>>

Next ==
  \/ Run
  \/ LateCall
  \/ Fulfil
  \/ Reject
  \/ LateSkip
  \/ TimerFire
  \/ SetTimeout
  \/ Reset
  \/ Tick

Spec == Init /\ [][Next]_vars

\* The event loop: time passes, and a timer that is due is run.
SpecLive == Init /\ [][Next]_vars /\ WF_vars(Tick) /\ WF_vars(TimerFire)

(***************************************************************************)
(* timeout(ms) alone, over the numbers at and around the ends of its       *)
(* range, on a Runnable as it is configured.                               *)
(***************************************************************************)
RangeArgs ==
  {NegInfinity, Num(-1), Num(0), Num(1), Num(2), Num(INT_MAX - 1),
   Num(INT_MAX), PosInfinity}

SetTimeoutInRange ==
  /\ \E ms \in RangeArgs :
       /\ Becomes(timeout(State, ms))
       /\ arg' = ms
  /\ nsets' = 1
  /\ UNCHANGED <<config, objects>>

SpecTimeout == Init /\ [][SetTimeoutInRange]_vars


(***************************************************************************)
(* The Hook: a Runnable with one retained error slot.  Its constructor     *)
(* leaves the slot unset, as reset() does.                                 *)
(***************************************************************************)
\* the Runnable the other objects' specifications start from
DefaultRunnable ==
  /\ kind = "plain"
  /\ ~allowUncaught
  /\ ~asyncOnly
  /\ ~parentPending
  /\ _timeout = DefaultTimeout

InitOne == Init /\ DefaultRunnable

\* what error() is called with, what the slot holds
HookValues == {"undefined", "null", "e1", "e2"}

\* error() that leaves the slot as it is when it is read
errorKeeps(slot, args) ==
  IF Len(args) = 0 THEN [returned |-> slot, _error |-> slot]
  ELSE [returned |-> "undefined", _error |-> args[1]]

\* Hook.prototype.error, called with the arguments args on a hook whose
\* slot holds slot
error(slot, args) ==
  IF Len(args) = 0 THEN [returned |-> slot, _error |-> "null"]
  ELSE [returned |-> "undefined", _error |-> args[1]]

HookCall(op, v, returned) == [op |-> op, arg |-> v, returned |-> returned]

\* error(err)
HookSetError ==
  /\ Len(hookLog) < MaxHookOps
  /\ \E e \in HookValues :
       /\ _error' = error(_error, <<e>>)._error
       /\ hookLog' = Append(hookLog, HookCall("set", e, error(_error, <<e>>).returned))
  /\ UNCHANGED <<runnableVars, tests, stats, once, seen, failures, failEvents, more>>

\* error()
HookGetError ==
  /\ Len(hookLog) < MaxHookOps
  /\ _error' = error(_error, <<>>)._error
  /\ hookLog' = Append(hookLog, HookCall("get", "none", error(_error, <<>>).returned))
  /\ UNCHANGED <<runnableVars, tests, stats, once, seen, failures, failEvents, more>>

\* Hook.prototype.reset
HookReset ==
  /\ Len(hookLog) < MaxHookOps
  /\ Becomes(reset(State))
  /\ _error' = "undefined"
  /\ hookLog' = Append(hookLog, HookCall("reset", "none", "undefined"))
  /\ UNCHANGED <<config, nsets, arg, tests, stats, once, seen, failures,
                 failEvents, more>>

NextHook ==
  \/ HookSetError
  \/ HookGetError
  \/ HookReset

SpecHook == InitOne /\ [][NextHook]_vars

(***************************************************************************)
(* The Test objects.  A Test is referred to by its place in tests, which   *)
(* is also its id; 0 stands for no Test.                                   *)
(***************************************************************************)
TestTitles == {"t"}

\* the body functions of tests; "none" is a test declared without one
TestFns == {"fnA", "none"}

\* the Runnable constructor, on a new object with the id id; the fields it
\* does not assign are unset
Runnable(title, fn, id) ==
  [title |-> title, fn |-> fn, _timeout |-> DefaultTimeout,
   _slow |-> DefaultSlow, _retries |-> DefaultRetries, id |-> id,
   timedOut |-> FALSE, _currentRetry |-> 0, pending |-> FALSE,
   state |-> "undefined", err |-> Undefined, errMultiple |-> <<>>,
   timer |-> NoTimer, duration |-> NoNumber, speed |-> "undefined",
   _retriedTest |-> 0, _allowedGlobals |-> "undefined",
   parent |-> "undefined", file |-> "undefined", ctx |-> "undefined"]

\* Test.prototype.reset; errMultiple is the multiple list of the err object
testReset(t) ==
  [t EXCEPT !.timedOut = FALSE, !._currentRetry = 0,
            !.pending = (t.fn = "none"), !.state = "undefined",
            !.err = Undefined, !.errMultiple = <<>>]

\* new Test(title, fn)
Test(title, fn, id) == testReset(Runnable(title, fn, id))

\* Runnable.prototype.slow(ms), retries(n), currentRetry(n), the setters
slow(t, ms) == [t EXCEPT !._slow = ms]
retries(t, n) == [t EXCEPT !._retries = n]
currentRetry(t, n) == [t EXCEPT !._currentRetry = n]

\* Runnable.prototype.globals(globals)
globals(t, g) ==
  IF g = "undefined" THEN t ELSE [t EXCEPT !._allowedGlobals = g]

\* Test.prototype.retriedTest(test)
retriedTest(t, test) ==
  IF test = 0 THEN t ELSE [t EXCEPT !._retriedTest = test]

\* clone() that leaves the new Test its default timeout
cloneDefaultTimeout(t, id) ==
  LET t1 == slow(Test(t.title, t.fn, id), t._slow)
      t2 == currentRetry(retries(t1, t._retries), t._currentRetry)
      t3 == retriedTest(t2, IF t._retriedTest # 0 THEN t._retriedTest ELSE t.id)
  IN [globals(t3, t._allowedGlobals)
        EXCEPT !.parent = t.parent, !.file = t.file, !.ctx = t.ctx]

\* clone() that refers to the Test it is called on
cloneChained(t, id) ==
  LET t1 == slow(timeout(Test(t.title, t.fn, id), Num(t._timeout)), t._slow)
      t2 == currentRetry(retries(t1, t._retries), t._currentRetry)
      t3 == retriedTest(t2, t.id)
  IN [globals(t3, t._allowedGlobals)
        EXCEPT !.parent = t.parent, !.file = t.file, !.ctx = t.ctx]

\* Test.prototype.clone, the new Test getting the id id
clone(t, id) ==
  LET test == Test(t.title, t.fn, id)
      t1 == slow(timeout(test, Num(t._timeout)), t._slow)
      t2 == currentRetry(retries(t1, t._retries), t._currentRetry)
      t3 == retriedTest(t2, IF t._retriedTest # 0 THEN t._retriedTest ELSE t.id)
  IN [globals(t3, t._allowedGlobals)
        EXCEPT !.parent = t.parent, !.file = t.file, !.ctx = t.ctx]

\* Runnable.prototype.titlePath, for a test of the suite t.parent below the
\* root suite; fullTitle() joins the path with spaces
titlePath(t) == <<t.parent, t.title>>

fullTitle(t) == titlePath(t)

\* what a field of a snapshot holds when it is a reference to a live object:
\* the kind of the object and its id, "null" and 0 for null
Ref(object, id) == [object |-> object, id |-> id]

\* Test.prototype.serialize
serialize(t) ==
  [currentRetry |-> t._currentRetry,
   fullTitle |-> fullTitle(t),
   isPending |-> t.pending,
   retriedTest |-> IF t._retriedTest # 0 THEN Ref("Test", t._retriedTest)
                   ELSE Ref("null", 0),
   slow |-> t._slow,
   titlePath |-> titlePath(t),
   body |-> IF t.fn = "none" THEN "" ELSE t.fn,
   duration |-> t.duration,
   err |-> t.err,
   parent |-> [fullTitle |-> <<t.parent>>, id |-> t.parent],
   speed |-> t.speed,
   state |-> t.state,
   title |-> t.title,
   type |-> "test",
   file |-> t.file,
   id |-> t.id]

\* the id a new object is given: one that no object has
NewMochaID == Len(tests) + 1

\* it(title, fn): the test is constructed, given its file and added to the
\* suite, which makes the suite its parent and hands it its context
Declare ==
  /\ tests = <<>>
  /\ \E title \in TestTitles, fn \in TestFns, f \in Files :
       tests' = <<[Test(title, fn, NewMochaID)
                     EXCEPT !.file = f, !.parent = "suite", !.ctx = "ctx"]>>
  /\ UNCHANGED <<runnableVars, _error, hookLog, stats, once, seen, failures,
                 failEvents, more>>

\* the declared test is not run yet
Configurable == Len(tests) = 1 /\ tests[1].state = "undefined"

\* timeout(ms) on the declared test
TestTimeout ==
  /\ Configurable
  /\ \E ms \in RangeArgs : tests' = [tests EXCEPT ![1] = timeout(@, ms)]
  /\ UNCHANGED <<runnableVars, _error, hookLog, stats, once, seen, failures,
                 failEvents, more>>

\* slow(ms), retries(n), globals(names) on the declared test
TestSlow ==
  /\ Configurable
  /\ tests' = [tests EXCEPT ![1] = slow(@, 10)]
  /\ UNCHANGED <<runnableVars, _error, hookLog, stats, once, seen, failures,
                 failEvents, more>>

TestRetries ==
  /\ Configurable
  /\ tests' = [tests EXCEPT ![1] = retries(@, MaxTests - 1)]
  /\ UNCHANGED <<runnableVars, _error, hookLog, stats, once, seen, failures,
                 failEvents, more>>

TestGlobals ==
  /\ Configurable
  /\ tests' = [tests EXCEPT ![1] = globals(@, "names")]
  /\ UNCHANGED <<runnableVars, _error, hookLog, stats, once, seen, failures,
                 failEvents, more>>

\* The runner ran the newest test: it passed or failed, in some time, maybe
\* by its timeout.
TestRan ==
  /\ tests # <<>>
  /\ tests[Len(tests)].state = "undefined"
  /\ ~tests[Len(tests)].pending
  /\ \E d \in 0..1 :
       \/ tests' = [tests EXCEPT ![Len(tests)].state = "passed",
                                 ![Len(tests)].duration = Number(d)]
       \/ \E late \in BOOLEAN :
            tests' = [tests EXCEPT ![Len(tests)].state = "failed",
                                   ![Len(tests)].duration = Number(d),
                                   ![Len(tests)].timedOut = late,
                                   ![Len(tests)].err = User("Error")]
  /\ UNCHANGED <<runnableVars, _error, hookLog, stats, once, seen, failures,
                 failEvents, more>>

\* clone() is called on a Test
Clone ==
  /\ Len(tests) \in 1..(MaxTests - 1)
  /\ \E i \in 1..Len(tests) : tests' = Append(tests, clone(tests[i], NewMochaID))
  /\ UNCHANGED <<runnableVars, _error, hookLog, stats, once, seen, failures,
                 failEvents, more>>

\* the runner counts the retry on the clone: currentRetry(n)
CurrentRetry ==
  /\ tests # <<>>
  /\ tests[Len(tests)]._retriedTest # 0
  /\ tests[Len(tests)].state = "undefined"
  /\ tests[Len(tests)]._currentRetry < MaxTests - 1
  /\ tests' = [tests EXCEPT ![Len(tests)] = currentRetry(@, @._currentRetry + 1)]
  /\ UNCHANGED <<runnableVars, _error, hookLog, stats, once, seen, failures,
                 failEvents, more>>

\* the suite of the tests is marked pending: suite.pending = true
SuiteSkipped ==
  /\ tests # <<>>
  /\ ~parentPending
  /\ parentPending' = TRUE
  /\ UNCHANGED <<kind, allowUncaught, asyncOnly, file, _timeout, timedOut,
                 pending, timer, callback, skip, now, nruns, nsets, arg, mode,
                 start, finished, errorWasHandled, result, emitted, live,
                 fnArgs, ended, calls, threw, rethrown, objects>>

NextTest ==
  \/ Declare
  \/ SuiteSkipped
  \/ TestTimeout
  \/ TestSlow
  \/ TestRetries
  \/ TestGlobals
  \/ TestRan
  \/ Clone
  \/ CurrentRetry

SpecTest == InitOne /\ [][NextTest]_vars

(***************************************************************************)
(* The stats collector: the listeners createStatsCollector registers on    *)
(* the runner.  An emitted event runs the listeners for it; a once-        *)
(* listener is removed when it has run.                                    *)
(***************************************************************************)
\* a - b on JavaScript numbers
Minus(a, b) ==
  IF a.type = "number" /\ b.type = "number" THEN Number(a.n - b.n) ELSE NaN

\* the listeners, with a suite-begin listener that counts the root suite too
emitCountsRoot(st, listeners, ev, t) ==
  [once |-> listeners \ {ev},
   stats |->
     CASE ev = "start" /\ ev \in listeners -> [st EXCEPT !.start = Number(t)]
       [] ev \in {"suite", "suite root"} -> [st EXCEPT !.suites = @ + 1]
       [] ev = "pass" -> [st EXCEPT !.passes = @ + 1]
       [] ev = "fail" -> [st EXCEPT !.failures = @ + 1]
       [] ev = "pending" -> [st EXCEPT !.pending = @ + 1]
       [] ev = "test end" -> [st EXCEPT !.tests = @ + 1]
       [] ev = "end" /\ ev \in listeners ->
            [st EXCEPT !.end = Number(t), !.duration = Minus(Number(t), st.start)]
       [] OTHER -> st]

\* the listeners, with a run-end listener that stays
emitOnEveryEnd(st, listeners, ev, t) ==
  [once |-> listeners \ ({"start"} \cap {ev}),
   stats |->
     CASE ev = "start" /\ ev \in listeners -> [st EXCEPT !.start = Number(t)]
       [] ev = "suite" -> [st EXCEPT !.suites = @ + 1]
       [] ev = "pass" -> [st EXCEPT !.passes = @ + 1]
       [] ev = "fail" -> [st EXCEPT !.failures = @ + 1]
       [] ev = "pending" -> [st EXCEPT !.pending = @ + 1]
       [] ev = "test end" -> [st EXCEPT !.tests = @ + 1]
       [] ev = "end" ->
            [st EXCEPT !.end = Number(t), !.duration = Minus(Number(t), st.start)]
       [] OTHER -> st]

\* runner.emit(ev) at the time t: the listeners of createStatsCollector
emit(st, listeners, ev, t) ==
  [once |-> listeners \ {ev},
   stats |->
     CASE ev = "start" /\ ev \in listeners -> [st EXCEPT !.start = Number(t)]
       [] ev = "suite" -> [st EXCEPT !.suites = @ + 1]
       [] ev = "pass" -> [st EXCEPT !.passes = @ + 1]
       [] ev = "fail" -> [st EXCEPT !.failures = @ + 1]
       [] ev = "pending" -> [st EXCEPT !.pending = @ + 1]
       [] ev = "test end" -> [st EXCEPT !.tests = @ + 1]
       [] ev = "end" /\ ev \in listeners ->
            [st EXCEPT !.end = Number(t), !.duration = Minus(Number(t), st.start)]
       [] OTHER -> st]

RECURSIVE Sum(_, _)
Sum(f, S) ==
  IF S = {} THEN 0
  ELSE LET x == CHOOSE y \in S : TRUE IN f[x] + Sum(f, S \ {x})

\* The runner emits an event.
Emit ==
  /\ Sum(seen, Events) < MaxEvents
  /\ \E ev \in Events :
       /\ stats' = emit(stats, once, ev, now).stats
       /\ once' = emit(stats, once, ev, now).once
       /\ seen' = [seen EXCEPT ![ev] = @ + 1]
  /\ UNCHANGED <<runnableVars, _error, hookLog, tests, failures, failEvents, more>>

NextStats ==
  \/ Emit
  \/ Tick

SpecStats == InitOne /\ [][NextStats]_vars

(***************************************************************************)
(* The Base reporter: its listener for test-fail events.  showDiff and     *)
(* stringifyDiffObjs rewrite the actual and expected fields of the error,  *)
(* which the model does not hold.                                          *)
(***************************************************************************)
\* errors.constants, the codes
MOCHA_ERRORS ==
  {"ERR_MOCHA_FATAL", "ERR_MOCHA_INVALID_ARG_TYPE", "ERR_MOCHA_INVALID_ARG_VALUE",
   "ERR_MOCHA_INVALID_EXCEPTION", "ERR_MOCHA_INVALID_INTERFACE",
   "ERR_MOCHA_INVALID_REPORTER", "ERR_MOCHA_MULTIPLE_DONE",
   "ERR_MOCHA_NO_FILES_MATCH_PATTERN", "ERR_MOCHA_UNSUPPORTED",
   "ERR_MOCHA_INSTANCE_ALREADY_RUNNING", "ERR_MOCHA_INSTANCE_ALREADY_DISPOSED",
   "ERR_MOCHA_FORBIDDEN_EXCLUSIVITY", "ERR_MOCHA_INVALID_PLUGIN_IMPLEMENTATION",
   "ERR_MOCHA_INVALID_PLUGIN_DEFINITION", "ERR_MOCHA_TIMEOUT",
   "ERR_MOCHA_UNPARSABLE_FILE"}

isMochaError(err) ==
  Truthy(err) /\ TypeOf(err) = "object" /\ err.code \in MOCHA_ERRORS

\* the errors a test fails with: a timeout, a repeated completion, an Error
\* of the user code such as a failed assertion
FailErrors ==
  {createTimeoutError(1, "a.spec.js"), createMultipleDoneError(Undefined),
   User("Error")}

\* Base: the test-fail listener, what it does to the test
testFail(t, err) ==
  IF Truthy(t.err) /\ isMochaError(err)
  THEN [t EXCEPT !.errMultiple = Append(@, err)]
  ELSE [t EXCEPT !.err = err, !.errMultiple = <<>>]

\* The runner emits test-fail for a test.
Fail ==
  /\ Len(failEvents) < MaxFails
  /\ \E i \in 1..Len(tests), err \in FailErrors :
       /\ tests' = [tests EXCEPT ![i] = testFail(@, err)]
       /\ failures' = Append(failures, i)
       /\ failEvents' = Append(failEvents, [test |-> i, err |-> err])
  /\ UNCHANGED <<runnableVars, _error, hookLog, stats, once, seen, more>>

\* the durations of passed tests: unset, and values around the slow
\* thresholds 10 and DefaultSlow and their halves
PassDurations ==
  {NoNumber, Number(0), Number(5), Number(6), Number(10), Number(11),
   Number(37), Number(38), Number(75), Number(76)}

\* the test-pass listener with a medium band that includes the half
testPassHalfInclusive(t) ==
  LET duration == IF t.duration.type = "number" THEN t.duration.n ELSE 0
  IN [t EXCEPT !.speed = IF duration > t._slow THEN "slow"
                         ELSE IF 2 * duration >= t._slow THEN "medium"
                         ELSE "fast"]

\* Base: the test-pass listener, what it does to the test; test.slow() is
\* this._slow, and duration > slow / 2 is 2 * duration > slow
testPass(t) ==
  LET duration == IF t.duration.type = "number" THEN t.duration.n ELSE 0
  IN [t EXCEPT !.speed = IF duration > t._slow THEN "slow"
                         ELSE IF 2 * duration > t._slow THEN "medium"
                         ELSE "fast"]

\* The runner emits test-pass for a test, having set its state and, unless
\* the test took no measurable time, its duration.
Pass ==
  /\ Len(passEvents) < MaxPasses
  /\ \E i \in 1..Len(tests), d \in PassDurations :
       /\ tests' = [tests EXCEPT
                      ![i] = testPass([@ EXCEPT !.duration = d, !.state = "passed"])]
       /\ passEvents' = Append(passEvents, [test |-> i, duration |-> d])
  /\ UNCHANGED <<runnableVars, _error, hookLog, stats, once, seen, failures,
                 failEvents, dslVars, workerVars, collected>>

NextBase ==
  \/ Declare
  \/ TestSlow
  \/ Fail
  \/ Pass

SpecBase == InitOne /\ [][NextBase]_vars

(***************************************************************************)
(* The interfaces (BDD, TDD) and the helpers they share.  A declaration    *)
(* with a body function calls the body before it returns: the model takes  *)
(* the call up to the body as one step and the return from the body as     *)
(* another, the declarations the body makes in between.                    *)
(***************************************************************************)
SuiteTitles == {"a", "b"}

\* what a declaration is given as the body of a suite
FnValues == {"function", "undefined", "null", "other"}

\* Suite.prototype.isPending
RECURSIVE suiteIsPending(_, _)
suiteIsPending(tr, i) ==
  i # 0 /\ (tr[i].pending \/ suiteIsPending(tr, tr[i].parent))

\* Suite.prototype.titlePath; fullTitle() joins it with spaces
RECURSIVE suiteTitlePath(_, _)
suiteTitlePath(tr, i) ==
  IF i = 0 THEN <<>>
  ELSE suiteTitlePath(tr, tr[i].parent)
         \o (IF tr[i].parent = 0 THEN <<>> ELSE <<tr[i].title>>)

\* grep.test(fullTitle) for the pattern /a/ or /b/: the letter occurs in
\* the full title
grepTest(re, path) == \E k \in 1..Len(path) : path[k] = re

shouldBeTested(o, tr, i) ==
  o.grep = "none"
    \/ (o.grep # "none" /\ grepTest(o.grep, suiteTitlePath(tr, i)) /\ ~o.invert)

\* the state of the interfaces, as a record
Dsl ==
  [suites |-> suites, tree |-> tree, bodies |-> bodies, marked |-> marked,
   tests |-> tests, dsl |-> dsl]

DslBecomes(d) ==
  /\ suites' = d.suites
  /\ tree' = d.tree
  /\ bodies' = d.bodies
  /\ marked' = d.marked
  /\ tests' = d.tests
  /\ dsl' = d.dsl

\* the options object the interfaces build
Opts(title, f, fn) ==
  [title |-> title, file |-> f, fn |-> fn, pending |-> FALSE, isOnly |-> FALSE]

\* common.suite.create, up to the call of the body
create(d, o, opts) ==
  LET id == Len(d.tree) + 1
      suite == [Suite(opts.title, d.suites[1])
                  EXCEPT !.pending = opts.pending, !.file = opts.file]
      d1 == [d EXCEPT !.tree = Append(@, suite), !.suites = <<id>> \o @,
                      !.dsl.created = TRUE, !.dsl.suite = id,
                      !.dsl.fn = opts.fn, !.dsl.pending = opts.pending]
      d2 == IF opts.isOnly
            THEN [d1 EXCEPT !.marked = Append(@, [type |-> "suite", id |-> id])]
            ELSE d1
  IN CASE suite.pending /\ o.forbidPending /\ shouldBeTested(o, d2.tree, id) ->
            [d2 EXCEPT !.dsl.thrown = createUnsupportedError("Pending test forbidden")]
       [] OTHER ->
            CASE opts.fn = "function" -> [d2 EXCEPT !.bodies = <<id>> \o @]
              [] opts.fn = "undefined" /\ ~suite.pending ->
                   [d2 EXCEPT !.dsl.thrown =
                      createMissingArgumentError("no callback was supplied", "callback")]
              [] opts.fn \in {"undefined", "null"} /\ suite.pending ->
                   [d2 EXCEPT !.suites = Tail(@)]
              [] OTHER -> d2

\* suite.only that does not look at forbidOnly
suiteOnlyUnchecked(d, o, opts) == create(d, o, [opts EXCEPT !.isOnly = TRUE])

\* common.suite.only
suiteOnly(d, o, opts) ==
  IF o.forbidOnly
  THEN [d EXCEPT !.dsl.thrown = createForbiddenExclusivityError(o.isWorker)]
  ELSE create(d, o, [opts EXCEPT !.isOnly = TRUE])

\* common.suite.skip
suiteSkip(d, o, opts) == create(d, o, [opts EXCEPT !.pending = TRUE])

\* context.it that hands the body to the Test whatever the suite is
itKeepsFn(d, title, f, fn) ==
  LET suite == d.suites[1]
      id == Len(d.tests) + 1
      test == Test(title, fn, id)
  IN [d EXCEPT !.tests = Append(@, [test EXCEPT !.file = f, !.parent = suite,
                                                !.ctx = "ctx"]),
               !.dsl.test = id, !.dsl.fn = fn]

\* context.it / context.test; dsl.fn keeps the fn of the call
it(d, title, f, fn) ==
  LET suite == d.suites[1]
      id == Len(d.tests) + 1
      test == IF suiteIsPending(d.tree, suite) THEN Test(title, "none", id)
              ELSE Test(title, fn, id)
  IN [d EXCEPT !.tests = Append(@, [test EXCEPT !.file = f, !.parent = suite,
                                                !.ctx = "ctx"]),
               !.dsl.test = id, !.dsl.fn = fn]

\* test.only that marks the test before it looks at forbidOnly
testOnlyMarksFirst(d, o) ==
  LET m == [d EXCEPT !.marked = Append(@, [type |-> "test", id |-> d.dsl.test])]
  IN IF o.forbidOnly
     THEN [m EXCEPT !.dsl.thrown = createForbiddenExclusivityError(o.isWorker)]
     ELSE m

\* common.test.only, on the test its argument expression made
testOnly(d, o) ==
  IF o.forbidOnly
  THEN [d EXCEPT !.dsl.thrown = createForbiddenExclusivityError(o.isWorker)]
  ELSE [d EXCEPT !.marked = Append(@, [type |-> "test", id |-> d.dsl.test])]

\* a declaration begins
Declaring(op) == [Dsl EXCEPT !.dsl = [NoDeclaration EXCEPT !.op = op]]

\* the options are set before the files are loaded
Configure ==
  /\ dsl = NoDeclaration
  /\ options' \in [forbidOnly : BOOLEAN, forbidPending : BOOLEAN,
                   grep : {"none", "a"}, invert : BOOLEAN, isWorker : {FALSE}]
  /\ UNCHANGED <<runnableVars, _error, hookLog, tests, stats, once, seen,
                 failures, failEvents, passEvents, suites, tree, bodies,
                 marked, dsl, workerVars, collected>>

\* describe, describe.skip, describe.only
Describe ==
  /\ Len(tree) <= MaxSuites
  /\ \E title \in SuiteTitles, f \in Files, fn \in FnValues :
       \/ DslBecomes(create(Declaring("describe"), options, Opts(title, f, fn)))
       \/ DslBecomes(suiteSkip(Declaring("describe.skip"), options, Opts(title, f, fn)))
       \/ DslBecomes(suiteOnly(Declaring("describe.only"), options, Opts(title, f, fn)))
  /\ UNCHANGED <<runnableVars, _error, hookLog, stats, once, seen, failures,
                 failEvents, passEvents, options, workerVars, collected>>

\* it, it.skip, it.only
It ==
  /\ Len(tests) < MaxTests - 1
  /\ \E title \in TestTitles, f \in Files, fn \in TestFns :
       \/ DslBecomes(it(Declaring("it"), title, f, fn))
       \/ DslBecomes(it(Declaring("it.skip"), title, f, "none"))
       \/ DslBecomes(testOnly(it(Declaring("it.only"), title, f, fn), options))
  /\ UNCHANGED <<runnableVars, _error, hookLog, stats, once, seen, failures,
                 failEvents, passEvents, options, workerVars, collected>>

\* the body of the innermost suite returns to create, which pops the stack
BodyReturns ==
  /\ bodies # <<>>
  /\ bodies' = Tail(bodies)
  /\ suites' = Tail(suites)
  /\ UNCHANGED <<runnableVars, _error, hookLog, tests, stats, once, seen,
                 failures, failEvents, passEvents, options, tree, marked, dsl,
                 workerVars, collected>>

\* the body does not catch what a declaration in it threw: create is left
\* by the exception
BodyThrows ==
  /\ bodies # <<>>
  /\ dsl.thrown # NoError
  /\ bodies' = Tail(bodies)
  /\ UNCHANGED <<runnableVars, _error, hookLog, tests, stats, once, seen,
                 failures, failEvents, passEvents, options, suites, tree,
                 marked, dsl, workerVars, collected>>

NextDsl ==
  \/ Configure
  \/ Describe
  \/ It
  \/ BodyReturns
  \/ BodyThrows

SpecDsl == InitOne /\ [][NextDsl]_vars

(***************************************************************************)
(* The worker: the module variables bootstrap and rootHooks, and the calls *)
(* of run().  A call runs up to an await in one step; the plugins load     *)
(* without an error.                                                       *)
(***************************************************************************)
\* the filepath argument of run(): none, or a test file
Filepaths == {"", "a.spec.js"}

\* run(filepath, serializedOptions) up to its first await, for a call that
\* finds b in the variable bootstrap: the argument check, then bootstrap(opts)
\* up to handleRequires, or the no-op
workerRun(b, w, filepath) ==
  IF filepath = ""
  THEN [pc |-> "rejected", work |-> w]
  ELSE IF b = "bootstrap"
       THEN [pc |-> "handleRequires", work |-> [w EXCEPT !.handleRequires = @ + 1]]
       ELSE [pc |-> "bootstrap", work |-> w]

\* the main process calls run()
WorkerRun ==
  /\ \E c \in 1..MaxCalls, filepath \in Filepaths :
       /\ pc[c] = "idle"
       /\ \A k \in 1..(c - 1) : pc[k] # "idle"
       /\ pc' = [pc EXCEPT ![c] = workerRun(bootstrap, work, filepath).pc]
       /\ work' = workerRun(bootstrap, work, filepath).work
  /\ UNCHANGED <<runnableVars, _error, hookLog, tests, stats, once, seen,
                 failures, failEvents, passEvents, dslVars, bootstrap,
                 rootHooks, collected>>

\* bootstrap after its await: the plugins are loaded
RequiresLoaded ==
  /\ \E c \in 1..MaxCalls :
       /\ pc[c] = "handleRequires"
       /\ pc' = [pc EXCEPT ![c] = "bootstrap"]
  /\ work' = [work EXCEPT !.validateLegacyPlugin = @ + 1]
  /\ rootHooks' = "plugins.rootHooks"
  /\ bootstrap' = "noop"
  /\ UNCHANGED <<runnableVars, _error, hookLog, tests, stats, once, seen,
                 failures, failEvents, passEvents, dslVars, collected>>

\* run() after await bootstrap(opts): the Mocha instance loads the file
Bootstrapped ==
  /\ \E c \in 1..MaxCalls :
       /\ pc[c] = "bootstrap"
       /\ pc' = [pc EXCEPT ![c] = "loadFiles"]
  /\ UNCHANGED <<runnableVars, _error, hookLog, tests, stats, once, seen,
                 failures, failEvents, passEvents, dslVars, bootstrap,
                 rootHooks, work, collected>>

\* the tests of the file ran: the promise run() returned is resolved
Resolved ==
  /\ \E c \in 1..MaxCalls :
       /\ pc[c] = "loadFiles"
       /\ pc' = [pc EXCEPT ![c] = "resolved"]
  /\ UNCHANGED <<runnableVars, _error, hookLog, tests, stats, once, seen,
                 failures, failEvents, passEvents, dslVars, bootstrap,
                 rootHooks, work, collected>>

NextWorker ==
  \/ WorkerRun
  \/ RequiresLoaded
  \/ Bootstrapped
  \/ Resolved

SpecWorker == InitOne /\ [][NextWorker]_vars

(***************************************************************************)
(* collectFiles.  A file name is a number, the names sorting as their      *)
(* numbers do; a pattern is the name it matches, 0 matching no file.  An   *)
(* option that is an array is given as Optional(items), or it is Absent.   *)
(***************************************************************************)
Optional(items) == [defined |-> TRUE, items |-> items]

Absent == [defined |-> FALSE, items |-> <<>>]

\* path.resolve(filename): the name below the working directory
resolve(filename) == <<"/cwd", filename>>

minimatch(filename, pattern) == filename = pattern

\* castArray(lookupFiles(arg, extension, recursive)): the files the pattern
\* names, or the no-files-match error
lookupFiles(a) ==
  IF a = 0 THEN [code |-> "ERR_MOCHA_NO_FILES_MATCH_PATTERN", files |-> <<>>]
  ELSE [code |-> "none", files |-> <<a>>]

\* filenames.map(filename => path.resolve(filename))
resolveAll(filenames) == [k \in 1..Len(filenames) |-> resolve(filenames[k])]

\* Array.prototype.sort on resolved file names
RECURSIVE sort(_)
sort(xs) ==
  IF xs = <<>> THEN <<>>
  ELSE LET i == CHOOSE i \in 1..Len(xs) : \A j \in 1..Len(xs) : xs[i][2] <= xs[j][2]
       IN <<xs[i]>> \o sort(SubSeq(xs, 1, i - 1) \o SubSeq(xs, i + 1, Len(xs)))

\* ignore?.every(pattern => !minimatch(filename, pattern)), as the filter
\* reads it: undefined is falsy
notIgnored(ignore, filename) ==
  /\ ignore.defined
  /\ \A k \in 1..Len(ignore.items) : ~minimatch(filename, ignore.items[k])

\* the reduce over spec: the files kept so far and the patterns unmatched
RECURSIVE specReduce(_, _, _)
specReduce(ignore, spec, acc) ==
  IF spec = <<>> THEN acc
  ELSE LET found == lookupFiles(Head(spec))
           moreSpecFiles ==
             resolveAll(SelectSeq(found.files, LAMBDA f : notIgnored(ignore, f)))
       IN specReduce(ignore, Tail(spec),
            IF found.code = "none"
            THEN [acc EXCEPT !.specFiles = @ \o moreSpecFiles]
            ELSE [acc EXCEPT !.unmatched = Append(@, Head(spec))])

\* collectFiles(opts): the files it returns and its warnings, or the exit
collectFiles(opts) ==
  LET acc == IF opts.spec.defined
             THEN specReduce(opts.ignore, opts.spec.items,
                             [specFiles |-> <<>>, unmatched |-> <<>>])
             ELSE [specFiles |-> <<>>, unmatched |-> <<>>]
      specFiles == IF opts.sort THEN sort(acc.specFiles) ELSE acc.specFiles
      files == (IF opts.file.defined THEN resolveAll(opts.file.items) ELSE <<>>)
                 \o specFiles
  IN IF files = <<>>
     THEN [exited |-> TRUE, files |-> <<>>, warnings |-> <<>>]
     ELSE [exited |-> FALSE, files |-> files, warnings |-> acc.unmatched]

\* the lists of at most two of the names S, and no list
Lists(S) ==
  {Absent} \cup {Optional(xs) : xs \in {<<>>} \cup {<<a>> : a \in S}
                                         \cup {<<a, b>> : a \in S, b \in S}}

\* collectFiles is called with some options
CollectFiles ==
  /\ collected = <<>>
  /\ \E ignore \in Lists(1..MaxFiles), fileArgs \in Lists(1..MaxFiles),
        spec \in Lists(0..MaxFiles), srt \in BOOLEAN :
       LET opts == [ignore |-> ignore, file |-> fileArgs, sort |-> srt, spec |-> spec]
       IN collected' = <<[opts |-> opts, result |-> collectFiles(opts)]>>
  /\ UNCHANGED <<runnableVars, _error, hookLog, tests, stats, once, seen,
                 failures, failEvents, passEvents, dslVars, workerVars>>

SpecCollect == InitOne /\ [][CollectFiles]_vars

(***************************************************************************)
(* Properties.                                                             *)
(***************************************************************************)
\* the closure the model follows is the closure of the latest run
Current == nruns > 0 /\ callback = nruns

\* the step is a call of run()
IsRun == nruns' = nruns + 1

\* C1: for every call run(fn), fn is invoked at most once, whatever
\* completion calls, settlements, throws, skips and timer firings follow.
C1_FnAtMostOnce == Len(fnArgs) <= 1

\* a run whose fn was invoked and that saw a further completion attempt
C1_Witness == Current /\ Len(fnArgs) = 1 /\ live >= 2

C3_TimerFiresOnce ==
  [][(/\ TimerFire
      /\ Current
      /\ mode \in {"async", "thenable"}
      /\ _timeout # 0
      /\ ~timedOut
      /\ ~finished)
     => (/\ fnArgs' = <<JsValue("timeout", "ERR_MOCHA_TIMEOUT", "undefined",
                                "", _timeout, file)>>
         /\ timedOut')]_vars

C3_Witness ==
  /\ Current
  /\ mode \in {"async", "thenable"}
  /\ ended \in {"return", "returnPromise"}
  /\ timedOut
  /\ live = 1
  /\ Len(fnArgs) = 1
  /\ fnArgs[1].kind = "timeout"
  /\ fnArgs[1].timeout = 1
  /\ fnArgs[1].file = "a.spec.js"

\* C4: while timedOut is true, a completion attempt neither invokes fn nor
\* emits an 'error' event.  (A new call of run() starts with fn not invoked
\* and nothing emitted, and invokes fn itself when the Runnable is pending.)
C4_IgnoredOnceTimedOut ==
  [][timedOut =>
       IF IsRun
       THEN \/ ended' = "pending" /\ emitted' = emitted
            \/ fnArgs' = <<>> /\ emitted' = <<>> /\ ~finished'
       ELSE fnArgs' = fnArgs /\ emitted' = emitted /\ finished' = finished]_vars

\* the promise settled after the run had timed out
C4_Witness ==
  /\ Current
  /\ mode = "thenable"
  /\ result = "settled"
  /\ timedOut
  /\ live = 1
  /\ Len(fnArgs) = 1
  /\ fnArgs[1].kind = "timeout"

\* the body's own completion: a callback call, a settlement, a skip
BodyCompletes == LateCall \/ Fulfil \/ Reject \/ LateSkip

CompletedByTimeout ==
  /\ Current
  /\ timedOut
  /\ finished
  /\ Len(fnArgs) = 1
  /\ fnArgs[1].kind = "timeout"

\* C5 as claimed: the completion of the body that arrives after the run
\* completed by timeout is reported as a multiple-completion error.
C5_LateCompletionReported ==
  [][(CompletedByTimeout /\ BodyCompletes)
     => (Len(emitted') = Len(emitted) + 1 /\ fnArgs' = fnArgs)]_vars

\* C5, amended: the completion of the body that arrives after the run
\* completed by timeout is dropped: no 'error' event, fn not invoked again.
C5_LateCompletionDropped ==
  [][(CompletedByTimeout /\ BodyCompletes)
     => (emitted' = emitted /\ fnArgs' = fnArgs)]_vars

\* the promise settled after the run had completed by timeout
C5_Witness ==
  /\ CompletedByTimeout
  /\ mode = "thenable"
  /\ result = "settled"
  /\ live = 1
  /\ emitted = <<>>

\* C6: when isPending() holds at run(fn), the body is not called, no timer
\* is armed and fn is invoked once, with no error.
C6_PendingRun ==
  [][/\ (IsRun /\ (pending \/ parentPending))
        => /\ ended' = "pending"
           /\ fnArgs' = <<Undefined>>
           /\ timer' = timer
           /\ now' = now
           /\ <<callback, mode, start, finished, errorWasHandled, result,
                emitted, live, pending, timedOut, skip>>' =
              <<callback, mode, start, finished, errorWasHandled, result,
                emitted, live, pending, timedOut, skip>>
     /\ (ended = "pending" /\ ~IsRun) => fnArgs' = fnArgs]_vars

\* a run of a Runnable whose own flag a skip() of the run before had set
C6_Witness ==
  /\ nruns = 2
  /\ ended = "pending"
  /\ pending
  /\ ~parentPending
  /\ fnArgs = <<Undefined>>

\* what C7 says timeout(ms) stores
C7_Stored(ms) ==
  IF ms.inf = -1 \/ (ms.inf = 0 /\ ms.n <= 0) THEN 0
  ELSE IF ms.inf = 1 \/ ms.n >= INT_MAX THEN 0
  ELSE ms.n

\* C7: timeout(ms) stores 0 for every ms <= 0 and every ms >= 2^31-1, and
\* ms itself otherwise; timeout() returns what is stored.
C7_TimeoutClamped == _timeout = C7_Stored(arg)

C7_Witness == nsets = 1 /\ arg = Num(INT_MAX) /\ _timeout = 0

\* the skip() is the first completion signal of a run on a Runnable that is
\* not timed out
SkipCompletes == IsRun /\ ended' = "skip" /\ calls' = 0 /\ ~timedOut

\* C8 as claimed: a synchronous skip() sets pending and has fn invoked once
\* with no error.
C8_SkipNoError ==
  [][SkipCompletes
     => (pending' /\ ~rethrown' /\ fnArgs' = <<Undefined>>)]_vars

\* C8, amended: a synchronous skip() that is the body's first completion
\* signal, on a Runnable that is not timed out, sets pending and has fn
\* invoked once: with no error, or with the timeout error when the body took
\* longer than an enabled timeout.
C8_SkipCompletesOnce ==
  [][SkipCompletes
     => /\ pending'
        /\ ~rethrown'
        /\ emitted' = <<>>
        /\ fnArgs' = <<IF _timeout > 0 /\ now' - now > _timeout
                       THEN JsValue("timeout", "ERR_MOCHA_TIMEOUT", "undefined",
                                    "", _timeout, file)
                       ELSE Undefined>>]_vars

C8_Witness ==
  /\ Current
  /\ kind = "callback"
  /\ ended = "skip"
  /\ calls = 0
  /\ pending
  /\ fnArgs = <<Undefined>>
  /\ live = 1

\* the thrown value reaches fn: the throw is the first completion signal of
\* a run on a Runnable that is not timed out
ThrowCompletes ==
  IsRun /\ ended' = "throw" /\ calls' = 0 /\ ~timedOut /\ ~allowUncaught

InvalidException(v) ==
  JsValue("invalidException", "ERR_MOCHA_INVALID_EXCEPTION", v,
          IF v = "undefined" THEN "undefined" ELSE "object", 0, "")

\* C9 as claimed: a thrown value that is falsy or no Error reaches fn as an
\* invalid-exception error, a thrown Error unchanged.
C9_NonErrorWrapped ==
  [][ThrowCompletes
     => fnArgs' = <<IF threw' = "Error" THEN User("Error")
                    ELSE InvalidException(threw')>>]_vars

\* C9, amended: a thrown falsy value reaches fn as an invalid-exception error
\* that records the value and its type; a thrown truthy value, Error or not,
\* reaches fn unchanged.
C9_FalsyWrapped ==
  [][ThrowCompletes
     => fnArgs' = <<IF threw' \in {"undefined", "null"}
                    THEN InvalidException(threw')
                    ELSE User(threw')>>]_vars

C9_Witness ==
  /\ Current
  /\ ended = "throw"
  /\ ~allowUncaught
  /\ threw = "null"
  /\ fnArgs = <<InvalidException("null")>>

\* C10 as claimed: with allowUncaught a thrown value is rethrown and fn not
\* invoked for it; a skip has fn invoked once with no error.
C10_RethrowOrSkip ==
  [][(IsRun /\ allowUncaught)
     => /\ ended' = "throw"
           => (rethrown' /\ live' = (IF timedOut THEN 0 ELSE calls')
               /\ (calls' = 0 => fnArgs' = <<>>))
        /\ ended' = "skip"
           => /\ ~rethrown'
              /\ pending'
              /\ SkipCompletes => fnArgs' = <<Undefined>>]_vars

\* C10, amended: with allowUncaught a thrown value is rethrown and fn not
\* invoked for it; a skip is not rethrown, and when it is the body's first
\* completion signal on a Runnable that is not timed out fn is invoked once:
\* with no error, or with the timeout error when the body took longer than an
\* enabled timeout.
C10_RethrowOrSkipCompletes ==
  [][(IsRun /\ allowUncaught)
     => /\ ended' = "throw"
           => (rethrown' /\ live' = (IF timedOut THEN 0 ELSE calls')
               /\ (calls' = 0 => fnArgs' = <<>>))
        /\ ended' = "skip"
           => /\ ~rethrown'
              /\ pending'
              /\ SkipCompletes
                   => /\ Len(fnArgs') = 1
                      /\ fnArgs'[1].kind \in {"user", "timeout"}
                      /\ fnArgs'[1].kind = "timeout"
                           <=> (_timeout > 0 /\ now' - now > _timeout)
                      /\ fnArgs'[1].kind = "user" => fnArgs'[1] = Undefined]_vars

C10_Witness ==
  /\ Current
  /\ allowUncaught
  /\ ended = "throw"
  /\ threw = "Error"
  /\ rethrown
  /\ fnArgs = <<>>

(***************************************************************************)
(* The modes of completion: callback, thenable, synchronous.               *)
(***************************************************************************)
\* run() is called on a Runnable that is neither pending nor timed out, and
\* the body makes its first completion call before it returns
IsSyncFirstCall ==
  /\ IsRun
  /\ kind = "callback"
  /\ ~(pending \/ parentPending)
  /\ ~timedOut
  /\ calls' >= 1

\* the bodies the step can be the run of: what the body did is in ended,
\* threw and the clock, but for the values it called back with
BodiesOfStep ==
  {Body(now' - now, c, ended', IF threw' = "none" THEN "undefined" ELSE threw') :
     c \in [1..calls' -> UserValues]}

\* the step is that run, of the body b
SyncFirstCall(b) == IsSyncFirstCall /\ Becomes(run(State, b))

\* the first completion call of the latest run is made, with v, after the
\* body returned, on a Runnable that is not timed out
LateFirstCall(v) ==
  /\ Current
  /\ mode = "async"
  /\ calls = 0
  /\ live = 0
  /\ ~timedOut
  /\ live' = 1
  /\ Becomes(completion(State, User(v)))

DoneNonError(v) == JsValue("doneNonError", "", v, "string", 0, "")

TimeoutErrorNow ==
  JsValue("timeout", "ERR_MOCHA_TIMEOUT", "undefined", "", _timeout, file)

\* the run took longer than an enabled timeout when the step ended
Overran == _timeout > 0 /\ now' - start' > _timeout

\* what C11 says fn receives for v
C11_Claimed(v) ==
  IF v = "Error" THEN User("Error")
  ELSE IF v = "string" THEN DoneNonError(v)
  ELSE Undefined

\* C11 as claimed: in explicit-callback mode the first completion call, with
\* v, has fn receive v when v is an Error, a 'done() invoked with non-Error'
\* error when v is truthy and no Error, and no error when v is falsy and the
\* body returned no promise.
C11_FirstCallValue ==
  [][/\ \A b \in (IF IsSyncFirstCall THEN BodiesOfStep ELSE {}) :
          (SyncFirstCall(b) /\ b.end # "returnPromise")
          => fnArgs' = <<C11_Claimed(b.calls[1])>>
     /\ \A v \in UserValues :
          (LateFirstCall(v) /\ result # "promise")
          => fnArgs' = <<C11_Claimed(v)>>]_vars

\* C11, amended: as claimed, but for a falsy v fn receives the timeout error
\* when the run took longer than an enabled timeout, and no error otherwise.
C11_FirstCallValueOrTimeout ==
  [][/\ \A b \in (IF IsSyncFirstCall THEN BodiesOfStep ELSE {}) :
          (SyncFirstCall(b) /\ b.end # "returnPromise")
          => fnArgs' = <<IF b.calls[1] \in {"undefined", "null"} /\ Overran
                         THEN TimeoutErrorNow
                         ELSE C11_Claimed(b.calls[1])>>
     /\ \A v \in UserValues :
          (LateFirstCall(v) /\ result # "promise")
          => fnArgs' = <<IF v \in {"undefined", "null"} /\ Overran
                         THEN TimeoutErrorNow
                         ELSE C11_Claimed(v)>>]_vars

\* the body called back with a string before it returned
C11_Witness ==
  /\ Current
  /\ mode = "async"
  /\ ended = "return"
  /\ calls = 1
  /\ fnArgs = <<DoneNonError("string")>>

\* C12 as claimed: when the body returns a thenable and calls the completion
\* function, before or after it returns and with whatever argument, the run
\* completes with the 'Resolution method is overspecified' error.
C12_AlwaysOverspecified ==
  [][/\ \A b \in (IF IsSyncFirstCall THEN BodiesOfStep ELSE {}) :
          (SyncFirstCall(b) /\ b.end = "returnPromise")
          => fnArgs' = <<PlainError("overspecified")>>
     /\ \A v \in UserValues :
          (LateFirstCall(v) /\ result = "promise")
          => fnArgs' = <<PlainError("overspecified")>>]_vars

\* C12, amended: the run completes with the overspecified error when the
\* first completion call is made after the body returned the thenable and
\* with a falsy argument; a call made before the body returns, or with a
\* truthy argument, is handled as without a thenable.
C12_OverspecifiedLateFalsy ==
  [][/\ \A b \in (IF IsSyncFirstCall THEN BodiesOfStep ELSE {}) :
          (SyncFirstCall(b) /\ b.end = "returnPromise")
          => fnArgs' = <<IF b.calls[1] \in {"undefined", "null"} /\ Overran
                         THEN TimeoutErrorNow
                         ELSE C11_Claimed(b.calls[1])>>
     /\ \A v \in UserValues :
          (LateFirstCall(v) /\ result = "promise")
          => fnArgs' = <<IF v \in {"undefined", "null"}
                         THEN PlainError("overspecified")
                         ELSE C11_Claimed(v)>>]_vars

\* the body returned a promise and called back later
C12_Witness ==
  /\ Current
  /\ mode = "async"
  /\ ended = "returnPromise"
  /\ result = "promise"
  /\ calls = 0
  /\ live = 1
  /\ fnArgs = <<PlainError("overspecified")>>

\* the latest run waits for the promise its body returned
ThenableWaiting ==
  /\ Current
  /\ mode = "thenable"
  /\ result = "promise"
  /\ ~timedOut
  /\ ~finished

\* the step is the firing of the timer
IsTimerFire == timer.status = "armed" /\ timer'.status = "fired"

\* C13 as claimed: in thenable mode fn is not invoked before the thenable
\* settles, unless the timer fires first; on fulfilment fn receives no error,
\* on rejection the reason, or the default error when the reason is falsy.
C13_ThenableSettles ==
  [][/\ (IsRun /\ ended' = "returnPromise" /\ kind = "plain") => fnArgs' = <<>>
     /\ (ThenableWaiting /\ ~IsRun /\ ~IsTimerFire /\ result' = "promise")
          => fnArgs' = <<>>
     /\ (ThenableWaiting /\ result' = "settled" /\ Becomes(fulfilled(State)))
          => fnArgs' = <<Undefined>>
     /\ \A v \in UserValues :
          (ThenableWaiting /\ result' = "settled"
             /\ Becomes(rejected(State, User(v))))
          => fnArgs' = <<IF v \in {"undefined", "null"}
                         THEN PlainError("rejectedFalsy") ELSE User(v)>>]_vars

\* C13, amended: as claimed, but on fulfilment fn receives the timeout error
\* when the run took longer than an enabled timeout, and no error otherwise.
C13_ThenableSettlesOrTimeout ==
  [][/\ (IsRun /\ ended' = "returnPromise" /\ kind = "plain") => fnArgs' = <<>>
     /\ (ThenableWaiting /\ ~IsRun /\ ~IsTimerFire /\ result' = "promise")
          => fnArgs' = <<>>
     /\ (ThenableWaiting /\ result' = "settled" /\ Becomes(fulfilled(State)))
          => fnArgs' = <<IF Overran THEN TimeoutErrorNow ELSE Undefined>>
     /\ \A v \in UserValues :
          (ThenableWaiting /\ result' = "settled"
             /\ Becomes(rejected(State, User(v))))
          => fnArgs' = <<IF v \in {"undefined", "null"}
                         THEN PlainError("rejectedFalsy") ELSE User(v)>>]_vars

\* the promise was rejected with a falsy reason
C13_Witness ==
  /\ Current
  /\ mode = "thenable"
  /\ result = "settled"
  /\ ~timedOut
  /\ fnArgs = <<PlainError("rejectedFalsy")>>

\* run() is called on a Runnable that is neither pending nor timed out, and
\* the body, which declares no callback, returns a value that is no thenable
SyncReturn ==
  /\ IsRun
  /\ kind = "plain"
  /\ ~(pending \/ parentPending)
  /\ ~timedOut
  /\ ended' = "return"

\* C14 as claimed: in synchronous mode fn is invoked before run() returns,
\* with no error when asyncOnly is off and the async-only error when on.
C14_SyncCompletes ==
  [][SyncReturn
     => fnArgs' = <<IF asyncOnly THEN PlainError("asyncOnly")
                    ELSE Undefined>>]_vars

\* C14, amended: as claimed, but with asyncOnly off fn receives the timeout
\* error when the body took longer than an enabled timeout.
C14_SyncCompletesOrTimeout ==
  [][SyncReturn
     => fnArgs' = <<IF asyncOnly THEN PlainError("asyncOnly")
                    ELSE IF Overran THEN TimeoutErrorNow
                    ELSE Undefined>>]_vars

C14_Witness ==
  /\ Current
  /\ mode = "sync"
  /\ asyncOnly
  /\ ended = "return"
  /\ fnArgs = <<PlainError("asyncOnly")>>

(***************************************************************************)
(* The Hook's error slot.                                                  *)
(***************************************************************************)
\* C15: an argument-less error() returns the value of the error(e) called
\* just before it and null when the call before it was an argument-less
\* error() too; reset() empties the slot, as the constructor leaves it: the
\* next error() returns undefined.
C15_ClearOnRead ==
  /\ \A i \in 1..Len(hookLog) :
       hookLog[i].op = "get" =>
         hookLog[i].returned =
           IF i > 1 /\ hookLog[i-1].op = "set" THEN hookLog[i-1].arg
           ELSE IF i > 1 /\ hookLog[i-1].op = "get" THEN "null"
           ELSE "undefined"
  /\ (hookLog # <<>> /\ hookLog[Len(hookLog)].op = "reset") => _error = "undefined"

\* error(e1), then three reads
C15_Witness ==
  /\ Len(hookLog) = 4
  /\ hookLog[1] = HookCall("set", "e1", "undefined")
  /\ hookLog[2] = HookCall("get", "none", "e1")
  /\ hookLog[3] = HookCall("get", "none", "null")
  /\ hookLog[4] = HookCall("get", "none", "null")

(***************************************************************************)
(* Test.prototype.clone.                                                   *)
(***************************************************************************)
\* the step is a call of clone() on the Test i
IsCloneOf(i) ==
  /\ Len(tests') = Len(tests) + 1
  /\ tests' = Append(tests, clone(tests[i], NewMochaID))

\* C16: clone() returns a new Test with an id no other Test has and with the
\* title, body function, timeout, slow threshold, retry limit, current retry
\* count, parent, file and context of the original, whose state and err are
\* unset, whose timedOut is false and which has no duration; the Tests that
\* exist stay as they are.
C16_CloneFresh ==
  [][\A i \in 1..Len(tests) :
       IsCloneOf(i) =>
         LET o == tests[i]
             c == tests'[Len(tests')]
         IN /\ \A j \in 1..Len(tests) : tests[j].id # c.id
            /\ c.title = o.title
            /\ c.fn = o.fn
            /\ c._timeout = o._timeout
            /\ c._slow = o._slow
            /\ c._retries = o._retries
            /\ c._currentRetry = o._currentRetry
            /\ c.parent = o.parent
            /\ c.file = o.file
            /\ c.ctx = o.ctx
            /\ c.state = "undefined"
            /\ c.err = Undefined
            /\ ~c.timedOut
            /\ c.duration = NoNumber
            /\ SubSeq(tests', 1, Len(tests)) = tests]_vars

\* the clone of a test that failed by its timeout, with a timeout, a slow
\* threshold and a retry limit of its own
C16_Witness ==
  /\ Len(tests) = 2
  /\ tests[1].state = "failed"
  /\ tests[1].timedOut
  /\ tests[1]._timeout = 1
  /\ tests[1]._slow = 10
  /\ tests[1]._retries = 2
  /\ tests[2]._retriedTest = 1
  /\ tests[2].state = "undefined"
  /\ ~tests[2].timedOut
  /\ tests[2]._timeout = 1

C18_CountersAreEventCounts ==
  /\ stats.passes = seen["pass"]
  /\ stats.failures = seen["fail"]
  /\ stats.pending = seen["pending"]
  /\ stats.tests = seen["test end"]
  /\ stats.suites = seen["suite"]

\* the root suite and another suite began, a test began and passed
C18_Witness ==
  /\ seen["suite root"] = 1
  /\ seen["suite"] = 1
  /\ seen["test"] = 1
  /\ seen["pass"] = 1
  /\ stats.suites = 1
  /\ stats.passes = 1

\* the step is the emission of ev
IsEmit(ev) == seen'[ev] = seen[ev] + 1

\* C19: the first run-begin event sets start, the first run-end event sets
\* end and duration, which is end - start (not a number when start is
\* unset); no other event, and no later run-begin or run-end event, changes
\* start, end or duration.
C19_StartEndOnce ==
  [][/\ IsEmit("start")
          => /\ stats'.start = IF seen["start"] = 0 THEN Number(now)
                               ELSE stats.start
             /\ stats'.end = stats.end
             /\ stats'.duration = stats.duration
     /\ IsEmit("end")
          => /\ stats'.start = stats.start
             /\ stats'.end = IF seen["end"] = 0 THEN Number(now) ELSE stats.end
             /\ stats'.duration =
                  IF seen["end"] # 0 THEN stats.duration
                  ELSE IF stats.start.type = "number"
                       THEN Number(now - stats.start.n)
                       ELSE NaN
     /\ ~(IsEmit("start") \/ IsEmit("end"))
          => /\ stats'.start = stats.start
             /\ stats'.end = stats.end
             /\ stats'.duration = stats.duration]_vars

\* a second run-begin and a second run-end, later than the first ones
C19_Witness ==
  /\ seen["start"] = 2
  /\ seen["end"] = 2
  /\ now = 2
  /\ stats.start = Number(0)
  /\ stats.end = Number(1)
  /\ stats.duration = Number(1)

(***************************************************************************)
(* The Base reporter.                                                      *)
(***************************************************************************)
\* the errors of the test-fail events for the test i, in order
FailedWith(i) ==
  LET IsOf(e) == e.test = i
      evs == SelectSeq(failEvents, IsOf)
  IN [k \in 1..Len(evs) |-> evs[k].err]

\* C20: when several test-fail events are emitted for a test, the error of
\* the first is the test's err and the errors of the later ones are, in
\* order, err.multiple: none is dropped or overwritten, whatever its kind.
C20_ErrorsChained ==
  \A i \in 1..Len(tests) :
    FailedWith(i) # <<>> =>
      /\ tests[i].err = Head(FailedWith(i))
      /\ tests[i].errMultiple = Tail(FailedWith(i))

(***************************************************************************)
(* The interfaces.                                                         *)
(***************************************************************************)
\* C21: a suite created through suite.create whose body is anything other
\* than a function, and which is not pending, makes the declaration throw
\* the missing-argument error.
C21_NoBodyThrows ==
  (dsl.created /\ dsl.fn # "function" /\ ~dsl.pending)
    => dsl.thrown.code = "ERR_MOCHA_INVALID_ARG_TYPE"

\* C22: with forbidOnly set, markOnly() is never called and every exclusive
\* declaration, of a suite or of a test, throws the forbidden-exclusivity
\* error.
C22_ForbidOnly ==
  options.forbidOnly =>
    /\ marked = <<>>
    /\ dsl.op \in {"describe.only", "it.only"}
         => dsl.thrown.code = "ERR_MOCHA_FORBIDDEN_EXCLUSIVITY"

\* it.only was rejected, after a describe.only had been rejected inside the
\* body of a suite
C22_Witness ==
  /\ options.forbidOnly
  /\ dsl.op = "it.only"
  /\ dsl.thrown.code = "ERR_MOCHA_FORBIDDEN_EXCLUSIVITY"
  /\ bodies # <<>>
  /\ marked = <<>>

\* the grep and invert options select the full title of the suite
Selected(i) ==
  options.grep = "none"
    \/ (grepTest(options.grep, suiteTitlePath(tree, i)) # options.invert)

\* C23: with forbidPending set, the creation of a pending suite that would
\* be tested (no grep, or a full title the grep and invert options select)
\* throws the unsupported error.
C23_ForbidPending ==
  (options.forbidPending /\ dsl.created /\ dsl.pending /\ Selected(dsl.suite))
    => dsl.thrown.code = "ERR_MOCHA_UNSUPPORTED"

(***************************************************************************)
(* The snapshots of tests.                                                 *)
(***************************************************************************)
\* C24: for every Test, in whatever state, the snapshot serialize() returns
\* holds what the getters of the Test return: title, duration, state, full
\* title, title path, and as its pending flag the value of isPending(),
\* which is true also when only the suite is pending.
C24_SnapshotEqualsGetters ==
  \A i \in 1..Len(tests) :
    LET t == tests[i]
        s == serialize(t)
    IN /\ s.title = t.title
       /\ s.duration = t.duration
       /\ s.state = t.state
       /\ s.fullTitle = fullTitle(t)
       /\ s.titlePath = titlePath(t)
       /\ s.isPending = isPending(t)

\* C25: the snapshot of a Test holds no live Test, Hook or Suite: no field
\* refers to one, and the parent is its full title and its id alone; this
\* holds for retry clones too.
C25_SnapshotFlat ==
  \A i \in 1..Len(tests) :
    LET s == serialize(tests[i])
    IN /\ s.retriedTest.object \notin {"Test", "Hook", "Suite"}
       /\ s.parent = [fullTitle |-> <<tests[i].parent>>, id |-> tests[i].parent]

(***************************************************************************)
(* The Base reporter: the speed of passed tests.                           *)
(***************************************************************************)
\* C26: on a test-pass event the test gets its speed from its duration d,
\* 0 when unset, and its slow threshold s: slow when d > s, medium when
\* s/2 < d <= s, fast when d <= s/2; the event leaves the test passed
\* and adds no failure.
C26_SpeedFromDuration ==
  [][Len(passEvents') > Len(passEvents) =>
       LET e == passEvents'[Len(passEvents')]
           d == IF e.duration.type = "number" THEN e.duration.n ELSE 0
           s == tests[e.test]._slow
           t == tests'[e.test]
       IN /\ d > s => t.speed = "slow"
          /\ (2 * d > s /\ d <= s) => t.speed = "medium"
          /\ 2 * d <= s => t.speed = "fast"
          /\ t.state = "passed"
          /\ t.err = tests[e.test].err
          /\ failures' = failures]_vars

\* a test with the threshold 10 passed in 5 ms, the half, and in a later
\* run in 6 ms, which made it medium
C26_Witness ==
  /\ Len(passEvents) = 2
  /\ passEvents[1].duration = Number(5)
  /\ \E i \in 1..Len(tests) :
       /\ tests[i]._slow = 10
       /\ tests[i].duration = Number(6)
       /\ tests[i].speed = "medium"

(***************************************************************************)
(* The worker.                                                             *)
(***************************************************************************)
\* C27: over the calls of run() in one worker, overlapping or not, the
\* bootstrap work is done once: handleRequires and validateLegacyPlugin are
\* called at most once, and once when a call has passed its bootstrap.
C27_BootstrapOnce ==
  /\ work.handleRequires <= 1
  /\ work.validateLegacyPlugin <= 1
  /\ (\E c \in 1..MaxCalls : pc[c] \in {"loadFiles", "resolved"})
       => (work.handleRequires = 1 /\ work.validateLegacyPlugin = 1)

(***************************************************************************)
(* collectFiles.                                                           *)
(***************************************************************************)
\* the spec files the lookup finds, in the order of the spec arguments
RECURSIVE Found(_)
Found(spec) ==
  IF spec = <<>> THEN <<>> ELSE lookupFiles(Head(spec)).files \o Found(Tail(spec))

\* a file that matches none of the ignore patterns; none when there is no
\* ignore list
MatchesNone(ignore, f) ==
  \A k \in 1..Len(ignore.items) : ~minimatch(f, ignore.items[k])

\* C28: collectFiles returns the resolved --file arguments in their order,
\* then the spec files found that match no ignore pattern, sorted only when
\* sort is set; without an ignore list no spec file is left out.
C28_FilesThenSpecs ==
  \A k \in 1..Len(collected) :
    LET o == collected[k].opts
        wanted == resolveAll(SelectSeq(Found(o.spec.items),
                                LAMBDA f : MatchesNone(o.ignore, f)))
        expected == resolveAll(o.file.items)
                      \o (IF o.sort THEN sort(wanted) ELSE wanted)
    IN expected # <<>> =>
         (~collected[k].result.exited /\ collected[k].result.files = expected)

(***************************************************************************)
(* The Runnable: every run ends.                                           *)
(***************************************************************************)
\* a run in explicit-callback or thenable mode waits for its completion:
\* allowUncaught is off, the Runnable has not timed out, its timer is armed
\* with the timeout, which timeout(ms) was called k times to set, and is
\* due before the clock of the model stops
Waiting(k) ==
  /\ Current
  /\ mode \in {"async", "thenable"}
  /\ ~allowUncaught
  /\ ~timedOut
  /\ fnArgs = <<>>
  /\ nsets = k
  /\ _timeout > 0
  /\ timer.status = "armed"
  /\ timer.ms = _timeout
  /\ timer.armedAt + timer.ms <= MaxTime

\* C29: a run in explicit-callback or thenable mode that started with
\* timedOut false, allowUncaught off and a timeout T > 0 invokes fn in the
\* end, by the body's completion, the settling of the promise or the timer,
\* unless timeout(ms) is called meanwhile; and fn is invoked once.
C29_RunCompletes ==
  /\ \A k \in 0..MaxSets : Waiting(k) ~> (Len(fnArgs) = 1 \/ nsets # k)
  /\ [](Len(fnArgs) <= 1)

\* the promise the body returned is still unsettled, and the timer has
\* completed the run with the timeout error
C29_Witness ==
  /\ Current
  /\ mode = "thenable"
  /\ result = "promise"
  /\ ~allowUncaught
  /\ nsets = 0
  /\ timer.status = "fired"
  /\ Len(fnArgs) = 1
  /\ fnArgs[1] = createTimeoutError(_timeout, file)

(***************************************************************************)
(* The Runnable: a run after a run that timed out.                         *)
(***************************************************************************)
\* run() is called on a Runnable that timed out and was not reset, and its
\* body, a synchronous one, returns
RerunReturns ==
  /\ IsRun
  /\ nruns >= 1
  /\ timedOut
  /\ kind = "plain"
  /\ ~(pending \/ parentPending)
  /\ ended' = "return"

\* C30 as claimed: a Runnable that timed out can be run again without
\* reset(): the second run invokes fn once when its body completes.
C30_RerunAfterTimeout ==
  [][RerunReturns => Len(fnArgs') = 1]_vars

\* C30, amended: without reset() the flag timedOut stays set and the second
\* run, unless the Runnable is pending, never invokes fn, neither when its
\* body completes nor when its timer fires; a second run on a Runnable whose
\* flag is clear, as reset() leaves it, invokes fn once when its body
\* returns.
C30_RerunNeedsReset ==
  /\ [][(IsRun /\ nruns >= 1 /\ timedOut /\ ended' # "pending")
          => (fnArgs' = <<>> /\ timedOut')]_vars
  /\ [][(~IsRun /\ nruns >= 2 /\ timedOut /\ timedOut') => fnArgs' = fnArgs]_vars
  /\ [][(IsRun /\ nruns >= 1 /\ ~timedOut /\ kind = "plain"
            /\ ~(pending \/ parentPending) /\ ended' = "return")
          => Len(fnArgs') = 1]_vars

\* the first run timed out; the body of the second run returned and fn was
\* not invoked
C30_Witness ==
  /\ nruns = 2
  /\ Current
  /\ timedOut
  /\ kind = "plain"
  /\ ended = "return"
  /\ ~(pending \/ parentPending)
  /\ fnArgs = <<>>

(***************************************************************************)
(* The Runnable: after the completion, and timeout(0) during a run.        *)
(***************************************************************************)
\* the latest run has completed and did not time out
Completed == Current /\ finished /\ ~timedOut /\ Len(fnArgs) = 1

\* the step is a call of timeout(ms)
IsSetTimeout == nsets' = nsets + 1

\* C31: when a run has completed without timing out, a later call of
\* timeout(ms) arms no timer that fires: no step of the timer sets timedOut
\* or emits an 'error' event, and timeout(ms) itself does neither.
C31_QuietAfterCompletion ==
  [][(Completed /\ (IsTimerFire \/ IsSetTimeout))
       => (~timedOut' /\ emitted' = emitted)]_vars

\* C32: while the timeout is 0, set so by timeout(0) during a run whose
\* timer was armed, the run gets no timeout error: the old timer, when it
\* fires, invokes nothing and leaves timedOut as it is, and a completion
\* hands fn no timeout error, however long the run took.
C32_DisabledDuringRun ==
  [][(Current /\ nsets >= 1 /\ _timeout = 0 /\ _timeout' = 0 /\ ~IsRun)
       => /\ IsTimerFire
               => (fnArgs' = fnArgs /\ timedOut' = timedOut /\ emitted' = emitted)
          /\ Len(fnArgs') > Len(fnArgs)
               => fnArgs'[Len(fnArgs')].kind # "timeout"]_vars

\* timeout(0) was called during a run with the timeout 1; the old timer
\* fired, and the body completed the run after 2 ms with no error
C32_Witness ==
  /\ Current
  /\ mode = "async"
  /\ nsets = 1
  /\ _timeout = 0
  /\ timer = [status |-> "fired", ms |-> 1, armedAt |-> 0]
  /\ ~timedOut
  /\ now - start = 2
  /\ fnArgs = <<Undefined>>

(***************************************************************************)
(* The Runnable: the duration check of done().                             *)
(***************************************************************************)
\* fn is invoked by a completion of the body, not by the timer
FnInvokedByBody ==
  /\ ~IsTimerFire
  /\ Len(fnArgs') = 1
  /\ IF IsRun THEN ended' # "pending" ELSE fnArgs = <<>>

\* a completion of a later task of an explicit-callback run gets the timeout
\* error of the duration check
LateDurationTimeout ==
  /\ FnInvokedByBody
  /\ ~IsRun
  /\ mode = "async"
  /\ fnArgs' = <<TimeoutErrorNow>>

\* the timer was due and has not been run
TimerOverdue == timer.status = "armed" /\ now - timer.armedAt >= timer.ms

\* the promise of the latest run is rejected with an Error
RejectedWithError ==
  /\ Current
  /\ mode = "thenable"
  /\ result = "promise"
  /\ result' = "settled"
  /\ ~timedOut
  /\ ~finished
  /\ Becomes(rejected(State, User("Error")))

\* what C33 says of the completion itself: a timeout error from a completion
\* is the one for T, given when the duration exceeds T > 0, and leaves
\* timedOut false; a run that took longer hands fn an error, its own or
\* that one; an Error the completion carries reaches fn as it is.
DurationCheck ==
  /\ FnInvokedByBody =>
       /\ fnArgs'[1].kind = "timeout"
            => (Overran /\ fnArgs'[1] = TimeoutErrorNow /\ ~timedOut')
       /\ Overran => Truthy(fnArgs'[1])
  /\ RejectedWithError => fnArgs' = <<User("Error")>>

\* C33 as claimed: the duration check as above, and the duration exceeds T
\* only when the timer was kept from firing: in a later task of an
\* explicit-callback run, whose timer is armed before the body, the timer is
\* overdue.
C33_OverrunOnlyByBlocking ==
  [][DurationCheck /\ (LateDurationTimeout => TimerOverdue)]_vars

\* C33, amended: the duration check as above; the duration exceeds T when
\* the timer was kept from firing, or when timeout(ms) was called on the
\* Runnable after the run began.
C33_OverrunByBlockingOrSet ==
  [][DurationCheck /\ (LateDurationTimeout => (TimerOverdue \/ nsets >= 1))]_vars

\* the body called back with no error 2 ms after the run began; timeout(1)
\* had re-armed the timer meanwhile, which was not due, and fn received
\* the timeout error
C33_Witness ==
  /\ Current
  /\ mode = "async"
  /\ nsets = 1
  /\ ~timedOut
  /\ now - start = 2
  /\ timer = [status |-> "cleared", ms |-> 1, armedAt |-> 2]
  /\ fnArgs = <<createTimeoutError(1, file)>>

(***************************************************************************)
(* The Runnable: a body that calls back and then throws.                    *)
(***************************************************************************)
\* the body of the latest run, in explicit-callback mode with allowUncaught
\* off, called its completion function and then threw a value that is no
\* Pending
ThrewAfterDone ==
  /\ Current
  /\ mode = "async"
  /\ ~allowUncaught
  /\ calls >= 1
  /\ ended = "throw"

\* C34: in explicit-callback mode with allowUncaught off, after the body
\* called the completion function and then threw, fn has been invoked at
\* most once and no 'error' event has been emitted in that run but for the
\* calls the body made before it threw: none for the thrown value and none
\* for any later extra completion call.
C34_ThrowAfterDoneDiscarded ==
  ThrewAfterDone => (Len(fnArgs) <= 1 /\ Len(emitted) <= calls - 1)

\* the body called back, threw an Error, and a later callback called the
\* completion function once more: fn was invoked once, nothing was emitted
C34_Witness ==
  /\ ThrewAfterDone
  /\ threw = "Error"
  /\ ~timedOut
  /\ live = 3
  /\ Len(fnArgs) = 1
  /\ emitted = <<>>

(***************************************************************************)
(* The Test: isPending(), isPassed(), isFailed().                           *)
(***************************************************************************)
\* C35: of every Test, in every reachable state, at most one of
\* isPending(), isPassed() and isFailed() is true, and a Test that is
\* pending, by its own flag or by its suite, is neither passed nor failed,
\* whatever its state field holds.
C35_OneOfPendingPassedFailed ==
  \A i \in 1..Len(tests) :
    LET t == tests[i] IN
    /\ ~(isPassed(t) /\ isFailed(t))
    /\ ~(isPending(t) /\ isPassed(t))
    /\ ~(isPending(t) /\ isFailed(t))
    /\ (t.pending \/ parentPending) => (~isPassed(t) /\ ~isFailed(t))

\* a Test passed, and its suite was marked pending afterwards: its state
\* field holds "passed", and it is pending and not passed
C35_Witness ==
  /\ tests # <<>>
  /\ tests[1].state = "passed"
  /\ ~tests[1].pending
  /\ parentPending
  /\ isPending(tests[1])
  /\ ~isPassed(tests[1])

(***************************************************************************)
(* The interfaces: the stack of current suites.                            *)
(***************************************************************************)
\* the step is a create that was given no function and returns
CreateReturnsNoBody ==
  /\ Len(tree') = Len(tree) + 1
  /\ dsl'.created
  /\ dsl'.thrown = NoError
  /\ dsl'.fn # "function"

\* the step is the return of a body to its create, which returns
CreateReturnsAfterBody ==
  /\ bodies # <<>>
  /\ bodies' = Tail(bodies)
  /\ suites' # suites

\* C36: whenever create returns without throwing, the stack of current
\* suites is what it was before the call: unchanged by a create that was
\* given no function, whatever opts.fn and opts.pending are, and with the
\* parent of the created suite on top again when its body has returned.
C36_StackRestored ==
  [][/\ CreateReturnsNoBody => suites' = suites
     /\ CreateReturnsAfterBody => suites'[1] = tree[bodies[1]].parent]_vars

(***************************************************************************)
(* The interfaces: what a rejected exclusive declaration leaves behind.    *)
(***************************************************************************)
\* the step is a declaration op that forbidOnly rejects
RejectedOnly(op) ==
  /\ options.forbidOnly
  /\ dsl'.op = op
  /\ dsl'.thrown.code = "ERR_MOCHA_FORBIDDEN_EXCLUSIVITY"
  /\ bodies' = bodies
  /\ options' = options

\* C37 as claimed: a declaration that forbidOnly rejects leaves the suite
\* tree and the stack of current suites unchanged; neither describe.only
\* nor it.only adds a suite or a test before it throws.
C37_RejectedAddsNothing ==
  [][(RejectedOnly("describe.only") \/ RejectedOnly("it.only"))
       => (tree' = tree /\ suites' = suites /\ tests' = tests)]_vars

\* C37, amended: a declaration that forbidOnly rejects adds no suite, marks
\* nothing and leaves the stack of current suites unchanged; describe.only
\* adds no test either, while it.only has added its test to the current
\* suite before it throws.
C37_RejectedAddsNoSuite ==
  [][/\ RejectedOnly("describe.only")
          => (tree' = tree /\ suites' = suites /\ marked' = marked
                /\ tests' = tests)
     /\ RejectedOnly("it.only")
          => /\ tree' = tree /\ suites' = suites /\ marked' = marked
             /\ Len(tests') = Len(tests) + 1
             /\ SubSeq(tests', 1, Len(tests)) = tests
             /\ tests'[Len(tests')].parent = suites[1]
             /\ dsl'.test = Len(tests')]_vars

\* it.only was rejected at the top level of a file: its test is in the root
\* suite, unmarked
C37_Witness ==
  /\ options.forbidOnly
  /\ dsl.op = "it.only"
  /\ dsl.thrown.code = "ERR_MOCHA_FORBIDDEN_EXCLUSIVITY"
  /\ Len(tree) = 1
  /\ suites = <<1>>
  /\ dsl.test = Len(tests)
  /\ tests[dsl.test].parent = 1
  /\ marked = <<>>

(***************************************************************************)
(* The interfaces: tests declared in a pending suite.                      *)
(***************************************************************************)
\* C38: a test declared while the current suite is pending, by its own flag
\* or an ancestor's, has no body function and its own pending flag is true,
\* and stays so when the test is reset: whatever suite it belongs to later,
\* it has no body to run.
C38_NoBodyInPendingSuite ==
  \A i \in 1..Len(tests) :
    suiteIsPending(tree, tests[i].parent)
      => /\ tests[i].fn = "none"
         /\ tests[i].pending
         /\ testReset(tests[i]).pending

\* it was called with a body in a suite that is not marked pending itself,
\* inside a describe.skip: the test has no body and is pending
C38_Witness ==
  /\ dsl.op = "it"
  /\ dsl.fn = "fnA"
  /\ dsl.test = Len(tests)
  /\ ~tree[tests[dsl.test].parent].pending
  /\ suiteIsPending(tree, tests[dsl.test].parent)
  /\ tests[dsl.test].fn = "none"
  /\ tests[dsl.test].pending

=============================================================================
